---- MODULE Spec2Model ----
(***************************************************************************)
(* A model of the go-i18n translation bundle (src/i18n.go, src/loader.go,  *)
(* src/localizer.go): locale registration, loading, fallback resolution,   *)
(* lookup with the runtime cache, and formatting dispatch.                 *)
(*                                                                         *)
(* Strings that the code inspects character by character (translation      *)
(* keys and texts) are sequences of one-character strings.  Locale names   *)
(* are TLA+ strings; language tags are values of their own (TagEn, ...),   *)
(* distinct from every locale string, with Make/Parse/TagString tables     *)
(* standing for golang.org/x/text/language on the listed inputs.           *)
(***************************************************************************)
EXTENDS Integers, Sequences, FiniteSets, TLC

VARIABLES
    options,                    \* the options NewBundle was given (never changes)
    defaultLocale,              \* I18n.defaultLocale
    defaultLanguage,            \* I18n.defaultLanguage
    languages,                  \* I18n.languages
    fallbacks,                  \* I18n.fallbacks
    mfOptions,                  \* I18n.mfOptions (the formatter's return type)
    parsedTranslations,         \* I18n.parsedTranslations
    runtimeParsedTranslations,  \* I18n.runtimeParsedTranslations
    localizer,                  \* Localizer.locale of the Localizer in use ("" before one is made)
    explicit,                   \* history: the <<locale, key>> pairs a load supplied
    last,                       \* the last API call and what it returned
    lk,                         \* one lookupFallback call tree, run step by step
    threads,                    \* goroutines inside Localizer.lookup
    crashed                     \* the Go runtime aborted on a concurrent map access

bundleVars == <<options, defaultLocale, defaultLanguage, languages, fallbacks,
                mfOptions>>
dataVars == <<parsedTranslations, runtimeParsedTranslations>>
vars == <<options, defaultLocale, defaultLanguage, languages, fallbacks, mfOptions,
          parsedTranslations, runtimeParsedTranslations, localizer,
          explicit, last, lk, threads, crashed>>

----------------------------------------------------------------------------
(* Bounds of the model. *)

\* Length of the locale list given to WithLocales.
MaxLocales == 3
\* Locale entries of the map given to one LoadMessages call.
MaxLoadLocales == 2
\* Candidates given to one NewLocalizer call.
MaxCandidates == 1
NumGoroutines == 2
MaxPreferred == 2
MaxFiles == 2

----------------------------------------------------------------------------
(* Generic helpers. *)

Range(s) == {s[i] : i \in 1..Len(s)}

SeqsUpTo(S, n) == UNION {[1..m -> S] : m \in 0..n}

\* All orders in which a Go map with key set S may be iterated.
Orders(S) == {o \in [1..Cardinality(S) -> S] : Range(o) = S}

\* slices.Index: 0-based index of the first occurrence, -1 when absent.
SlicesIndex(s, x) ==
    IF \E i \in 1..Len(s) : s[i] = x
    THEN (CHOOSE i \in 1..Len(s) : s[i] = x /\ \A j \in 1..(i - 1) : s[j] # x) - 1
    ELSE -1

\* slices.Delete(s, i, i+1) with a 0-based i.
SlicesDelete(s, i) == SubSeq(s, 1, i) \o SubSeq(s, i + 2, Len(s))

\* slices.Insert(s, 0, x).
SlicesInsertFront(s, x) == <<x>> \o s

----------------------------------------------------------------------------
(* Language tags (golang.org/x/text/language), on the inputs of the model. *)

TagUnd == "Tag(und)"
TagEn == "Tag(en)"
TagJa == "Tag(ja-JP)"
TagKo == "Tag(ko-KR)"
TagZh == "Tag(zh-Hans)"

\* Tag.String().
TagString(t) ==
    CASE t = TagEn -> "en"
      [] t = TagJa -> "ja-JP"
      [] t = TagKo -> "ko-KR"
      [] t = TagZh -> "zh-Hans"
      [] OTHER -> "und"

\* language.Parse: the tag and whether an error is returned.  Case and the
\* separator are normalised; a malformed string gives Und and an error.
Parse(s) ==
    CASE s \in {"en", "EN"} -> [tag |-> TagEn, err |-> FALSE]
      [] s \in {"ja-JP", "ja_JP", "ja-jp"} -> [tag |-> TagJa, err |-> FALSE]
      [] s \in {"ko-KR", "ko_kr", "ko-kr"} -> [tag |-> TagKo, err |-> FALSE]
      [] s \in {"zh-Hans", "zh_hans"} -> [tag |-> TagZh, err |-> FALSE]
      [] s = "und" -> [tag |-> TagUnd, err |-> FALSE]
      [] OTHER -> [tag |-> TagUnd, err |-> TRUE]

\* language.Make: Parse with the error dropped.
Make(s) == Parse(s).tag

----------------------------------------------------------------------------
(* Bundle construction. *)

\* WithLocales: the tags that parse and are defined, in the given order.
WithLocales(locales) ==
    LET kept == SelectSeq(locales,
                          LAMBDA s : ~Parse(s).err /\ Parse(s).tag # TagUnd)
    IN [i \in 1..Len(kept) |-> Parse(kept[i]).tag]

\* Faulty variant of ensureDefaultLanguageFirst: a list that is not empty is left as
\* it was configured.
ensureDefaultLanguageKept(langs, def) ==
    IF Len(langs) = 0 THEN <<def>> ELSE langs

ensureDefaultLanguageFirst(langs, def) ==
    IF Len(langs) = 0 THEN <<def>>
    ELSE IF langs[1] = def THEN langs
    ELSE LET i == SlicesIndex(langs, def)
             rest == IF i > 0 THEN SlicesDelete(langs, i) ELSE langs
         IN SlicesInsertFront(rest, def)

\* Faulty variant of NewBundle: without a usable default option the default
\* is English whatever locales are configured.
NewBundleEnglish(opts) ==
    LET lang0 == IF opts.hasLocales THEN WithLocales(opts.locales) ELSE <<>>
        def0 == IF opts.hasDefault THEN Make(opts.default) ELSE TagUnd
        def == IF def0 = TagUnd THEN TagEn ELSE def0
    IN [defaultLanguage |-> def,
        defaultLocale |-> TagString(def),
        languages |-> ensureDefaultLanguageFirst(lang0, def),
        fallbacks |-> opts.fallbacks,
        mfOptions |-> opts.mfOptions]

\* NewBundle: the bundle fields after the options ran and the default was
\* resolved.  opts.hasDefault / opts.hasLocales say which options were given.
NewBundle(opts) ==
    LET lang0 == IF opts.hasLocales THEN WithLocales(opts.locales) ELSE <<>>
        def0 == IF opts.hasDefault THEN Make(opts.default) ELSE TagUnd
        def == IF def0 = TagUnd
               THEN (IF Len(lang0) = 0 THEN TagEn ELSE lang0[1])
               ELSE def0
    IN [defaultLanguage |-> def,
        defaultLocale |-> TagString(def),
        languages |-> ensureDefaultLanguageFirst(lang0, def),
        fallbacks |-> opts.fallbacks,
        mfOptions |-> opts.mfOptions]

\* language.NewMatcher(b.languages).Match(tag) with confidence Exact: the
\* index (1-based here) of the first supported tag equal to tag, 0 if none.
MatchExactIndex(langs, tag) ==
    IF tag # TagUnd /\ \E i \in 1..Len(langs) : langs[i] = tag
    THEN SlicesIndex(langs, tag) + 1
    ELSE 0

matchExactLocale(langs, locale) ==
    LET i == MatchExactIndex(langs, Make(locale))
    IN IF i > 0 THEN TagString(langs[i]) ELSE ""

----------------------------------------------------------------------------
(* Translation units and the MessageFormat compiler (messageformat-go).    *)

\* The nil *parsedTranslation.
NilUnit == [locale |-> "", name |-> <<>>, text |-> <<>>, format |-> FALSE]

\* Faulty variant of LastIndexCtx: strings.Index, the first occurrence.
FirstIndexCtx(v) ==
    LET at == {i \in 1..(Len(v) - 1) : v[i] = " " /\ v[i + 1] = "<"}
    IN IF at = {} THEN -1
       ELSE (CHOOSE i \in at : \A j \in at : i <= j) - 1

\* strings.LastIndex(v, " <"): 0-based, -1 when absent.
LastIndexCtx(v) ==
    LET at == {i \in 1..(Len(v) - 1) : v[i] = " " /\ v[i + 1] = "<"}
    IN IF at = {} THEN -1
       ELSE (CHOOSE i \in at : \A j \in at : j <= i) - 1

HasSuffixGt(v) == Len(v) > 0 /\ v[Len(v)] = ">"

trimContext(v) ==
    LET idx == LastIndexCtx(v)
    IN IF idx # -1 /\ HasSuffixGt(v) THEN SubSeq(v, 1, idx) ELSE v

\* Nesting depth of braces after each prefix of a pattern.
RECURSIVE Depth(_, _)
Depth(text, n) ==
    IF n = 0 THEN 0
    ELSE Depth(text, n - 1)
         + (IF text[n] = "{" THEN 1 ELSE IF text[n] = "}" THEN -1 ELSE 0)

\* formatter.Compile(text) succeeds: the braces of the pattern are balanced.
Compiles(text) ==
    /\ \A n \in 1..Len(text) : Depth(text, n) >= 0
    /\ Depth(text, Len(text)) = 0

\* The text a compiled pattern produces: each top-level {...} argument is
\* replaced by the value of the variable, written "V".
RECURSIVE Render(_, _)
Render(text, n) ==
    IF n = 0 THEN <<>>
    ELSE IF text[n] = "}" /\ Depth(text, n) = 0 THEN Render(text, n - 1) \o <<"V">>
    ELSE IF Depth(text, n) > 0 \/ text[n] = "}" THEN Render(text, n - 1)
    ELSE Render(text, n - 1) \o <<text[n]>>

\* Calling a compiled pattern with params: an error when the variables do
\* not fit the pattern, a non-string when the options ask for values.
MfCall(text, params, opts) ==
    IF params = "unfit" THEN [err |-> TRUE, isString |-> FALSE, str |-> <<>>]
    ELSE IF opts = "values" THEN [err |-> FALSE, isString |-> FALSE, str |-> <<>>]
    ELSE [err |-> FALSE, isString |-> TRUE, str |-> Render(text, Len(text))]

\* language.MustParse(locale) panics when the locale does not parse.
MustParsePanics(locale) == Parse(locale).err

\* The base language of a locale, language.MustParse(locale).Base().
LangBase(locale) ==
    IF Parse(locale).tag = TagEn THEN "en"
    ELSE IF Parse(locale).tag = TagJa THEN "ja"
    ELSE IF Parse(locale).tag = TagKo THEN "ko"
    ELSE IF Parse(locale).tag = TagZh THEN "zh"
    ELSE "und"

\* The plural category the formatter of a base language gives the number one:
\* English has a category "one", Japanese, Korean and Chinese only "other".
PluralOfOne(base) == IF base = "en" THEN "one" ELSE "other"

\* The output of a pattern compiled by the formatter of a base language: a
\* plural argument, written "#" in a pattern, yields its branch for the
\* number one under the plural rules of that language.
RECURSIVE InBase(_, _)
InBase(base, str) ==
    IF str = <<>> THEN <<>>
    ELSE (IF Head(str) = "#" THEN <<PluralOfOne(base)>> ELSE <<Head(str)>>)
         \o InBase(base, Tail(str))

\* Faulty variant of parseTranslation: the unit is marked compiled whatever
\* the compiler said.
parseTranslationCompiled(locale, name, text) ==
    [locale |-> locale, name |-> name, text |-> text, format |-> TRUE]

parseTranslation(locale, name, text) ==
    [locale |-> locale, name |-> name, text |-> text, format |-> Compiles(text)]

----------------------------------------------------------------------------
(* Fallback resolution. *)

HasUnit(idx, locale, name) ==
    locale \in DOMAIN idx /\ name \in DOMAIN idx[locale]

\* b.parsedTranslations[locale][name], nil when either map lacks its key.
UnitAt(idx, locale, name) ==
    IF HasUnit(idx, locale, name) THEN idx[locale][name] ELSE NilUnit

\* lookupFallback returns the unit found and the visited set it leaves.
RECURSIVE lookupFallback(_, _, _, _, _, _)
RECURSIVE lookupChain(_, _, _, _, _, _, _)

\* Faulty variant of lookupChain: an exhausted chain gives nil, not the default
\* locale's unit.
RECURSIVE lookupChainNoDefault(_, _, _, _, _, _, _)
lookupChainNoDefault(idx, fbs, def, chain, i, name, visited) ==
    IF i > Len(chain) THEN [unit |-> NilUnit, visited |-> visited]
    ELSE IF HasUnit(idx, chain[i], name)
    THEN [unit |-> idx[chain[i]][name], visited |-> visited]
    ELSE LET found == lookupFallback(idx, fbs, def, chain[i], name, visited)
         IN IF found.unit # NilUnit THEN found
            ELSE lookupChainNoDefault(idx, fbs, def, chain, i + 1, name, found.visited)

lookupFallback(idx, fbs, def, locale, name, visited) ==
    IF locale \in visited THEN [unit |-> NilUnit, visited |-> visited]
    ELSE IF locale \notin DOMAIN fbs
    THEN [unit |-> UnitAt(idx, def, name), visited |-> visited \cup {locale}]
    ELSE lookupChain(idx, fbs, def, fbs[locale], 1, name, visited \cup {locale})

\* The loop over chain, from its i-th element on.
lookupChain(idx, fbs, def, chain, i, name, visited) ==
    IF i > Len(chain) THEN [unit |-> UnitAt(idx, def, name), visited |-> visited]
    ELSE IF HasUnit(idx, chain[i], name)
    THEN [unit |-> idx[chain[i]][name], visited |-> visited]
    ELSE LET found == lookupFallback(idx, fbs, def, chain[i], name, visited)
         IN IF found.unit # NilUnit THEN found
            ELSE lookupChain(idx, fbs, def, chain, i + 1, name, found.visited)

lookupBestFallback(idx, fbs, def, locale, name) ==
    lookupFallback(idx, fbs, def, locale, name, {}).unit

\* Storing a unit in the index, creating nothing else.
PutUnit(idx, locale, name, unit) ==
    [idx EXCEPT ![locale] =
        [k \in DOMAIN idx[locale] \cup {name} |->
            IF k = name THEN unit ELSE idx[locale][k]]]

\* The inner loop of formatFallbacks for one default-locale unit: the
\* locales of the index are visited in the order locs.
RECURSIVE fillLocales(_, _, _, _, _, _)
fillLocales(idx, fbs, def, name, locs, i) ==
    IF i > Len(locs) THEN idx
    ELSE LET locale == locs[i]
             best == lookupBestFallback(idx, fbs, def, locale, name)
             next == IF locale = def \/ HasUnit(idx, locale, name) \/ best = NilUnit
                     THEN idx
                     ELSE PutUnit(idx, locale, name, best)
         IN fillLocales(next, fbs, def, name, locs, i + 1)

\* formatFallbacks: names is the order in which the default locale's units
\* are visited, locs[j] the order of the locales for the j-th of them.
RECURSIVE formatFallbacks(_, _, _, _, _, _)
formatFallbacks(idx, fbs, def, names, locs, j) ==
    IF j > Len(names) THEN idx
    ELSE formatFallbacks(fillLocales(idx, fbs, def, names[j], locs[j], 1),
                         fbs, def, names, locs, j + 1)

\* The locales on which the inner loop of formatFallbacks acts for name
\* (the others are skipped by its two continue statements).
FillTargets(idx, def, name) ==
    {l \in DOMAIN idx : l # def /\ name \notin DOMAIN idx[l]}

\* The iteration orders of the inner loop, one for each name of names.
RECURSIVE LocOrders(_, _, _, _)
LocOrders(idx, def, names, j) ==
    IF j > Len(names) THEN {<<>>}
    ELSE {<<o>> \o rest : o \in Orders(FillTargets(idx, def, names[j])),
                          rest \in LocOrders(idx, def, names, j + 1)}

\* Faulty variant of FormatFallbacksResults: the outer loop ranges over the
\* keys of every locale of the index, not of the default locale only.
FormatFallbacksResultsAllKeys(idx, fbs, def) ==
    LET allKeys == UNION {DOMAIN idx[l] : l \in DOMAIN idx}
    IN {formatFallbacks(idx, fbs, def, names, locs, 1) :
          <<names, locs>> \in
              UNION {{<<n, l>> : l \in LocOrders(idx, def, n, 1)} : n \in Orders(allKeys)}}

\* Every index formatFallbacks can leave, over the iteration orders of the
\* two Go maps it ranges over.
FormatFallbacksResults(idx, fbs, def) ==
    LET defKeys == IF def \in DOMAIN idx THEN DOMAIN idx[def] ELSE {}
    IN {formatFallbacks(idx, fbs, def, names, locs, 1) :
          <<names, locs>> \in
              UNION {{<<n, l>> : l \in LocOrders(idx, def, n, 1)} : n \in Orders(defKeys)}}

----------------------------------------------------------------------------
(* Loading. *)

\* Faulty variant of LoadLocale: a key the locale has an entry for keeps it.
LoadLocaleKeepsOld(idx, langs, loc, texts) ==
    LET locale == matchExactLocale(langs, loc)
        old == IF locale \in DOMAIN idx THEN idx[locale] ELSE <<>>
        new == [k \in DOMAIN old \cup DOMAIN texts |->
                   IF k \in DOMAIN old
                   THEN old[k]
                   ELSE parseTranslation(locale, k, texts[k])]
    IN IF locale = "" THEN idx
       ELSE [l \in DOMAIN idx \cup {locale} |-> IF l = locale THEN new ELSE idx[l]]

\* The body of the outer loop of LoadMessages for one entry of msgs.
LoadLocale(idx, langs, loc, texts) ==
    LET locale == matchExactLocale(langs, loc)
        old == IF locale \in DOMAIN idx THEN idx[locale] ELSE <<>>
        new == [k \in DOMAIN old \cup DOMAIN texts |->
                   IF k \in DOMAIN texts
                   THEN parseTranslation(locale, k, texts[k])
                   ELSE old[k]]
    IN IF locale = "" THEN idx
       ELSE [l \in DOMAIN idx \cup {locale} |-> IF l = locale THEN new ELSE idx[l]]

\* Faulty variant of LoadLocales: the loop ends at the first name that
\* matches no configured locale.
RECURSIVE LoadLocalesUntilUnmatched(_, _, _, _, _)
LoadLocalesUntilUnmatched(idx, langs, msgs, order, i) ==
    IF i > Len(order) THEN idx
    ELSE IF matchExactLocale(langs, order[i]) = "" THEN idx
    ELSE LoadLocalesUntilUnmatched(LoadLocale(idx, langs, order[i], msgs[order[i]]),
                                   langs, msgs, order, i + 1)

\* The outer loop of LoadMessages, msgs being iterated in the order order.
RECURSIVE LoadLocales(_, _, _, _, _)
LoadLocales(idx, langs, msgs, order, i) ==
    IF i > Len(order) THEN idx
    ELSE LoadLocales(LoadLocale(idx, langs, order[i], msgs[order[i]]),
                     langs, msgs, order, i + 1)

\* Every index LoadMessages(msgs) can leave.
LoadMessagesResults(idx, langs, fbs, def, msgs) ==
    UNION {FormatFallbacksResults(LoadLocales(idx, langs, msgs, order, 1), fbs, def) :
             order \in Orders(DOMAIN msgs)}

----------------------------------------------------------------------------
(* Lookup and formatting. *)

\* Faulty variant of lookup: the runtime cache is read before the index.
lookupCacheFirst(idx, cache, def, locale, name) ==
    IF name \in DOMAIN cache
    THEN [pt |-> cache[name], cache |-> cache, from |-> "cache", panic |-> FALSE]
    ELSE IF HasUnit(idx, locale, name)
    THEN [pt |-> idx[locale][name], cache |-> cache, from |-> "index",
          panic |-> FALSE]
    ELSE LET pt == parseTranslation(def, name, trimContext(name))
         IN [pt |-> pt,
             cache |-> [k \in DOMAIN cache \cup {name} |->
                           IF k = name THEN pt ELSE cache[k]],
             from |-> "parsed",
             panic |-> MustParsePanics(def)]

\* Faulty variant of lookup: a miss leaves the new unit alone in the cache.
lookupCacheOfOne(idx, cache, def, locale, name) ==
    IF HasUnit(idx, locale, name)
    THEN [pt |-> idx[locale][name], cache |-> cache, from |-> "index",
          panic |-> FALSE]
    ELSE IF name \in DOMAIN cache
    THEN [pt |-> cache[name], cache |-> cache, from |-> "cache", panic |-> FALSE]
    ELSE LET pt == parseTranslation(def, name, trimContext(name))
         IN [pt |-> pt,
             cache |-> [k \in {name} |-> pt],
             from |-> "parsed",
             panic |-> MustParsePanics(def)]

\* Faulty variant of lookup: the unseen key itself is compiled, its context suffix
\* not removed.
lookupKeyAsText(idx, cache, def, locale, name) ==
    IF HasUnit(idx, locale, name)
    THEN [pt |-> idx[locale][name], cache |-> cache, from |-> "index",
          panic |-> FALSE]
    ELSE IF name \in DOMAIN cache
    THEN [pt |-> cache[name], cache |-> cache, from |-> "cache", panic |-> FALSE]
    ELSE LET pt == parseTranslation(def, name, name)
         IN [pt |-> pt,
             cache |-> [k \in DOMAIN cache \cup {name} |->
                           IF k = name THEN pt ELSE cache[k]],
             from |-> "parsed",
             panic |-> MustParsePanics(def)]

\* Faulty variant of lookup: the runtime cache is written but never consulted.
lookupIgnoresCache(idx, cache, def, locale, name) ==
    IF HasUnit(idx, locale, name)
    THEN [pt |-> idx[locale][name], cache |-> cache, from |-> "index",
          panic |-> FALSE]
    ELSE LET pt == parseTranslation(def, name, trimContext(name))
         IN [pt |-> pt,
             cache |-> [k \in DOMAIN cache \cup {name} |->
                           IF k = name THEN pt ELSE cache[k]],
             from |-> "parsed",
             panic |-> MustParsePanics(def)]

\* Localizer.lookup: the unit returned, the runtime cache it leaves, and
\* where the unit came from.
lookup(idx, cache, def, locale, name) ==
    IF HasUnit(idx, locale, name)
    THEN [pt |-> idx[locale][name], cache |-> cache, from |-> "index",
          panic |-> FALSE]
    ELSE IF name \in DOMAIN cache
    THEN [pt |-> cache[name], cache |-> cache, from |-> "cache", panic |-> FALSE]
    ELSE LET pt == parseTranslation(def, name, trimContext(name))
         IN [pt |-> pt,
             cache |-> [k \in DOMAIN cache \cup {name} |->
                           IF k = name THEN pt ELSE cache[k]],
             from |-> "parsed",
             panic |-> MustParsePanics(def)]

\* varsToParams: "none" stands for no Vars argument (a nil params).
varsToParams(data) == data

\* Faulty variant of localize: a compiled template is called also without variables.
localizeAlwaysFormats(pt, data, opts) ==
    IF ~pt.format THEN pt.text
    ELSE LET r == MfCall(pt.text, varsToParams(data), opts)
         IN IF r.err THEN pt.text
            ELSE IF ~r.isString THEN pt.text
            ELSE r.str

\* Localizer.localize.
localize(pt, data, opts) ==
    IF ~pt.format THEN pt.text
    ELSE IF varsToParams(data) = "none" THEN pt.text
    ELSE LET r == MfCall(pt.text, varsToParams(data), opts)
         IN IF r.err THEN pt.text
            ELSE IF ~r.isString THEN pt.text
            ELSE InBase(LangBase(pt.locale), r.str)

\* Faulty variant of NewLocalizerLocale: a matched locale is taken whether
\* or not the index has a map for it.
RECURSIVE NewLocalizerLocaleUnloaded(_, _, _, _, _)
NewLocalizerLocaleUnloaded(idx, langs, def, locales, i) ==
    IF i > Len(locales) THEN def
    ELSE LET matched == matchExactLocale(langs, locales[i])
         IN IF matched # "" THEN matched
            ELSE NewLocalizerLocaleUnloaded(idx, langs, def, locales, i + 1)

\* I18n.NewLocalizer: the locale the new Localizer is bound to.
RECURSIVE NewLocalizerLocale(_, _, _, _, _)
NewLocalizerLocale(idx, langs, def, locales, i) ==
    IF i > Len(locales) THEN def
    ELSE LET matched == matchExactLocale(langs, locales[i])
         IN IF matched # "" /\ matched \in DOMAIN idx THEN matched
            ELSE NewLocalizerLocale(idx, langs, def, locales, i + 1)

\* language.ParseAcceptLanguage: an empty header holds no tag, a header
\* that lists languages holds their tags in the order of preference, a
\* malformed header is an error.
ParseAcceptLanguage(s) ==
    IF s = "" THEN [tags |-> <<>>, err |-> FALSE]
    ELSE IF s = "zh-Hans,ko-KR" THEN [tags |-> <<TagZh, TagKo>>, err |-> FALSE]
    ELSE IF Parse(s).err THEN [tags |-> <<>>, err |-> TRUE]
    ELSE [tags |-> <<Parse(s).tag>>, err |-> FALSE]

\* Faulty variant of AcceptTags: the loop ends at the first header that does
\* not parse.
RECURSIVE AcceptTagsUntilError(_, _)
AcceptTagsUntilError(accepts, i) ==
    IF i > Len(accepts) THEN <<>>
    ELSE LET parsed == ParseAcceptLanguage(accepts[i])
         IN IF parsed.err THEN <<>>
            ELSE parsed.tags \o AcceptTagsUntilError(accepts, i + 1)

\* The loop of MatchAvailableLocale over accepts.
RECURSIVE AcceptTags(_, _)
AcceptTags(accepts, i) ==
    IF i > Len(accepts) THEN <<>>
    ELSE LET parsed == ParseAcceptLanguage(accepts[i])
         IN (IF parsed.err THEN <<>> ELSE parsed.tags) \o AcceptTags(accepts, i + 1)

\* languageMatcher.Match(tags...): the index (1-based here) of the supported
\* tag matched by the first of tags that is supported, 0 at confidence No.
MatchIndex(langs, tags) ==
    LET hits == {i \in 1..Len(tags) : MatchExactIndex(langs, tags[i]) > 0}
    IN IF hits = {} THEN 0
       ELSE MatchExactIndex(langs, tags[CHOOSE i \in hits : \A j \in hits : i <= j])

MatchAvailableLocale(langs, accepts) ==
    LET tags == AcceptTags(accepts, 1)
        idx == MatchIndex(langs, tags)
    IN IF Len(tags) = 0 THEN TagString(langs[1])
       ELSE IF idx > 0 THEN TagString(langs[idx])
       ELSE TagString(langs[1])

\* fmt.Sprintf("%v", result) of a result that is not a string: the parts of
\* the message, bracketed.
SprintV(str) == <<"[">> \o str \o <<"]">>

\* Faulty variant of Format: a message that cannot be compiled or formatted
\* is given back unformatted.
FormatDegrades(locale, message, data, opts) ==
    IF MustParsePanics(locale) THEN [str |-> <<>>, err |-> FALSE, panic |-> TRUE]
    ELSE IF ~Compiles(message) THEN [str |-> message, err |-> FALSE, panic |-> FALSE]
    ELSE LET r == MfCall(message, varsToParams(data), opts)
             out == InBase(LangBase(locale), Render(message, Len(message)))
         IN IF r.err THEN [str |-> message, err |-> FALSE, panic |-> FALSE]
            ELSE IF ~r.isString THEN [str |-> SprintV(out), err |-> FALSE, panic |-> FALSE]
            ELSE [str |-> InBase(LangBase(locale), r.str), err |-> FALSE, panic |-> FALSE]

\* Localizer.Format of a message: compiled by the formatter of the
\* Localizer's base language and called directly.
Format(locale, message, data, opts) ==
    IF MustParsePanics(locale) THEN [str |-> <<>>, err |-> FALSE, panic |-> TRUE]
    ELSE IF ~Compiles(message) THEN [str |-> <<>>, err |-> TRUE, panic |-> FALSE]
    ELSE LET r == MfCall(message, varsToParams(data), opts)
             out == InBase(LangBase(locale), Render(message, Len(message)))
         IN IF r.err THEN [str |-> <<>>, err |-> TRUE, panic |-> FALSE]
            ELSE IF ~r.isString THEN [str |-> SprintV(out), err |-> FALSE, panic |-> FALSE]
            ELSE [str |-> InBase(LangBase(locale), r.str), err |-> FALSE, panic |-> FALSE]

\* fmt.Sprintf(format, args...) from position i of the format with a the
\* next operand: "%s" writes the next operand, "%%" a percent sign; a verb
\* without operand and operands without verb are reported in the output.
RECURSIVE SprintfFrom(_, _, _, _)
SprintfFrom(format, i, args, a) ==
    IF i > Len(format)
    THEN (IF a <= Len(args) THEN <<"%!(EXTRA)">> ELSE <<>>)
    ELSE IF format[i] # "%" THEN <<format[i]>> \o SprintfFrom(format, i + 1, args, a)
    ELSE IF i = Len(format) THEN <<"%!(NOVERB)">>
    ELSE IF format[i + 1] = "%" THEN <<"%">> \o SprintfFrom(format, i + 2, args, a)
    ELSE IF a <= Len(args) THEN args[a] \o SprintfFrom(format, i + 2, args, a + 1)
    ELSE <<"%!", format[i + 1], "(MISSING)">> \o SprintfFrom(format, i + 2, args, a)

Sprintf(format, args) == SprintfFrom(format, 1, args, 1)

\* Faulty variant of ContextKey: the context is dropped.
ContextKeyBare(name, context) == name

\* The key GetX looks up: name + " <" + context + ">".
ContextKey(name, context) == name \o <<" ", "<">> \o context \o <<">">>

----------------------------------------------------------------------------
(* Inputs of the model. *)

KeyHi == <<"h", "i">>
KeyPost == <<"P">>
KeyPostVerb == <<"P", " ", "<", "v", ">">>
KeyTemplate == <<"{", "n", "}", "!">>

TextA == <<"A">>
TextB == <<"B">>
TextTemplate == <<"{", "n", "}", "?">>
TextBroken == <<"{", "n">>

\* Every map from at most n of the names to a map from some keys to texts.
MessageMaps(names, keys, texts, n) ==
    LET perLocale == UNION {[ks -> texts] : ks \in SUBSET keys}
    IN UNION {[ns -> perLocale] : ns \in {x \in SUBSET names : Cardinality(x) <= n}}

\* The text each locale's messages give to a key: one text per locale, so
\* that a translation shows which locale it was loaded for.
LocaleText(locale) ==
    CASE locale = "en" -> <<"E">>
      [] locale = "ja-JP" -> <<"J">>
      [] locale = "ko-KR" -> <<"K">>
      [] OTHER -> <<"Z">>

\* The msgs arguments over names that have at most n locales, each with no
\* message or with its own text for key.
LocaleMessages(names, key, n) ==
    UNION {{[l \in ns |-> IF l \in has THEN [k \in {key} |-> LocaleText(l)] ELSE <<>>] :
               has \in SUBSET ns} :
             ns \in {x \in SUBSET names : Cardinality(x) <= n}}

NoFallbacks == <<>>

\* One fallback entry, and two.
Chain1(l, c) == [x \in {l} |-> c]
Chain2(l1, c1, l2, c2) == [x \in {l1, l2} |-> IF x = l1 THEN c1 ELSE c2]

\* The fallback graphs the bundles of Spec are built with: none, one and two
\* element chains, two step chains, an empty chain, a self loop and mutual
\* cycles.
FallbackGraphs ==
    { NoFallbacks,
      Chain1("ja-JP", <<"ko-KR">>),
      Chain1("ja-JP", <<"ko-KR", "zh-Hans">>),
      Chain1("ja-JP", <<>>),
      Chain1("ja-JP", <<"ja-JP">>),
      Chain2("ja-JP", <<"ko-KR">>, "ko-KR", <<"zh-Hans">>),
      Chain2("ja-JP", <<"ko-KR">>, "ko-KR", <<"ja-JP">>),
      Chain2("ja-JP", <<"ko-KR", "zh-Hans">>, "ko-KR", <<"ja-JP">>) }

Options(hasDefault, default, hasLocales, locales, fbs, mfo) ==
    [hasDefault |-> hasDefault, default |-> default,
     hasLocales |-> hasLocales, locales |-> locales,
     fallbacks |-> fbs, mfOptions |-> mfo]

----------------------------------------------------------------------------
(* Loading from files.  A path is a directory and the parts of the file     *)
(* name that its dots separate.                                             *)

Path(dir, parts) == [dir |-> dir, parts |-> parts]

NoPath == Path("", <<>>)

\* strings.ToLower(strings.ReplaceAll(v, "_", "-")) on the name parts used.
LowerHyphen(v) ==
    CASE v \in {"en", "EN"} -> "en"
      [] v \in {"ja_JP", "ja-JP"} -> "ja-jp"
      [] v \in {"ko-KR", "ko_kr"} -> "ko-kr"
      [] OTHER -> v

\* nameInsensitive: the base name up to its first dot, lower-cased and
\* hyphenated.
nameInsensitive(path) == LowerHyphen(path.parts[1])

\* The files on disk: each can be read or not, and what can be read either
\* unmarshals to key-text pairs or does not.
FileEn == Path("ok", <<"en", "json">>)
FileEnExtra == Path("ok", <<"EN", "extra", "yml">>)
FileJa == Path("ok", <<"ja_JP", "json">>)
FileKo == Path("locked", <<"ko-KR", "json">>)
FileBroken == Path("broken", <<"en", "toml">>)
FileAbsent == Path("nonexistent", <<"file", "json">>)

DiskFiles == {FileEn, FileEnExtra, FileJa, FileKo, FileBroken}

\* readFn followed by the unmarshaler, for one path.
ReadFile(path) ==
    CASE path = FileEn ->
           [read |-> TRUE, parsed |-> TRUE, kv |-> [k \in {KeyHi} |-> TextA]]
      [] path = FileEnExtra ->
           [read |-> TRUE, parsed |-> TRUE, kv |-> [k \in {KeyHi, KeyPost} |-> TextB]]
      [] path = FileJa ->
           [read |-> TRUE, parsed |-> TRUE, kv |-> [k \in {KeyHi} |-> LocaleText("ja-JP")]]
      [] path = FileBroken -> [read |-> TRUE, parsed |-> FALSE, kv |-> <<>>]
      [] OTHER -> [read |-> FALSE, parsed |-> FALSE, kv |-> <<>>]

\* The error a load returns: its kind and the path or pattern it names.
NoError == [kind |-> "none", at |-> NoPath]

\* Faulty variant of MapsCopy: a key dst already has keeps its value.
MapsCopyKeep(dst, src) ==
    [k \in DOMAIN dst \cup DOMAIN src |-> IF k \in DOMAIN dst THEN dst[k] ELSE src[k]]

\* maps.Copy(dst, src).
MapsCopy(dst, src) ==
    [k \in DOMAIN dst \cup DOMAIN src |-> IF k \in DOMAIN src THEN src[k] ELSE dst[k]]

\* mergeTranslation: msgs with the pairs of file merged into the map of the
\* locale name derived from the file name.
mergeTranslation(msgs, file) ==
    LET f == ReadFile(file)
        locale == nameInsensitive(file)
        old == IF locale \in DOMAIN msgs THEN msgs[locale] ELSE <<>>
    IN IF ~f.parsed THEN [err |-> [kind |-> "unmarshal", at |-> file], msgs |-> msgs]
       ELSE [err |-> NoError,
             msgs |-> [l \in DOMAIN msgs \cup {locale} |->
                          IF l = locale THEN MapsCopy(old, f.kv) ELSE msgs[l]]]

\* The loop of loadFiles from the i-th file on: the first error ends it.
RECURSIVE loadFiles(_, _, _)
loadFiles(files, i, msgs) ==
    IF i > Len(files) THEN [err |-> NoError, msgs |-> msgs]
    ELSE IF ~ReadFile(files[i]).read
    THEN [err |-> [kind |-> "read", at |-> files[i]], msgs |-> msgs]
    ELSE LET merged == mergeTranslation(msgs, files[i])
         IN IF merged.err # NoError THEN merged
            ELSE loadFiles(files, i + 1, merged.msgs)

\* Glob patterns: all files of a directory, its json files, and a pattern
\* that is malformed.
PatternAll(dir) == Path(dir, <<"*">>)
PatternJson(dir) == Path(dir, <<"*", "json">>)
PatternBad == Path("", <<"[">>)

\* filepath.Glob / fs.Glob: the matches of a pattern, or ErrBadPattern.
Glob(pattern) ==
    IF pattern = PatternBad THEN [err |-> TRUE, matches |-> {}]
    ELSE [err |-> FALSE,
          matches |-> {f \in DiskFiles :
                          /\ f.dir = pattern.dir
                          /\ \/ Len(pattern.parts) = 1
                             \/ f.parts[Len(f.parts)] = pattern.parts[2]}]

\* The place of a path in the order of slices.Sort (upper case sorts first).
PathRank(path) ==
    CASE path = FileBroken -> 1
      [] path = FileKo -> 2
      [] path = FileEnExtra -> 3
      [] path = FileEn -> 4
      [] OTHER -> 5

\* slices.Compact(slices.Sort(paths)) of the paths in S.
RECURSIVE SortCompact(_)
SortCompact(S) ==
    IF S = {} THEN <<>>
    ELSE LET first == CHOOSE f \in S : \A g \in S : PathRank(f) <= PathRank(g)
         IN <<first>> \o SortCompact(S \ {first})

\* collectGlobs from the i-th pattern on, found being the matches so far.
RECURSIVE collectGlobs(_, _, _)
collectGlobs(patterns, i, found) ==
    IF i > Len(patterns) THEN [err |-> NoError, files |-> SortCompact(found)]
    ELSE LET g == Glob(patterns[i])
         IN IF g.err THEN [err |-> [kind |-> "glob", at |-> patterns[i]], files |-> <<>>]
            ELSE collectGlobs(patterns, i + 1, found \cup g.matches)

\* LoadGlob and LoadFS up to their call of loadFiles: the files to load.
LoadGlobFiles(patterns) ==
    LET c == collectGlobs(patterns, 1, {})
    IN IF c.err # NoError THEN [err |-> c.err, msgs |-> <<>>]
       ELSE loadFiles(c.files, 1, <<>>)

----------------------------------------------------------------------------
(* The bundle as a state machine. *)

NoCall ==
    [op |-> "none", locale |-> "", key |-> <<>>, data |-> "none",
     result |-> <<>>, from |-> "", pt |-> NilUnit, locales |-> <<>>,
     panic |-> FALSE, err |-> FALSE, files |-> <<>>, errKind |-> "none",
     errAt |-> [dir |-> "", parts |-> <<>>], context |-> <<>>, args |-> <<>>,
     msgs |-> <<>>]

\* No fallback resolution is running.
LkIdle ==
    [status |-> "idle", pending |-> {}, name |-> <<>>, locale |-> "",
     stack |-> <<>>, visited |-> {}, expanded |-> <<>>,
     returned |-> FALSE, ret |-> NilUnit]

\* A goroutine that is not inside a call.
IdleThread ==
    [pc |-> "idle", locale |-> "", key |-> <<>>, pt |-> NilUnit, op |-> "",
     args |-> <<>>]

\* The state NewBundle(opts) returns.
Constructed(opts) ==
    LET b == NewBundle(opts)
    IN /\ options = opts
       /\ defaultLocale = b.defaultLocale
       /\ defaultLanguage = b.defaultLanguage
       /\ languages = b.languages
       /\ fallbacks = b.fallbacks
       /\ mfOptions = b.mfOptions
       /\ parsedTranslations = <<>>
       /\ runtimeParsedTranslations = <<>>
       /\ localizer = ""
       /\ explicit = {}
       /\ last = NoCall
       /\ lk = LkIdle
       /\ threads = [t \in 1..NumGoroutines |-> IdleThread]
       /\ crashed = FALSE

\* The <<locale, key>> pairs LoadMessages(msgs) stores units for.
Supplied(langs, msgs) ==
    UNION {{<<matchExactLocale(langs, n), k>> : k \in DOMAIN msgs[n]} :
             n \in {m \in DOMAIN msgs : matchExactLocale(langs, m) # ""}}

\* LoadMessages(msgs) for some msgs of M.
LoadMessagesOf(M) ==
    /\ \E msgs \in M :
         /\ parsedTranslations' \in
                LoadMessagesResults(parsedTranslations, languages, fallbacks,
                                    defaultLocale, msgs)
         /\ explicit' = explicit \cup Supplied(languages, msgs)
    /\ last' = [NoCall EXCEPT !.op = "LoadMessages"]
    /\ UNCHANGED <<bundleVars, runtimeParsedTranslations, localizer, lk, threads,
                   crashed>>

\* Faulty variant of FinishLoad: the files merged before the failing one are
\* loaded.
FinishLoadPartial(op, files, loaded) ==
    /\ parsedTranslations' \in
           LoadMessagesResults(parsedTranslations, languages, fallbacks,
                               defaultLocale, loaded.msgs)
    /\ explicit' = explicit \cup Supplied(languages, loaded.msgs)
    /\ last' = [NoCall EXCEPT !.op = op, !.files = files,
                              !.err = (loaded.err # NoError),
                              !.errKind = loaded.err.kind,
                              !.errAt = loaded.err.at]

\* The end of a load from files: an error leaves the bundle as it was,
\* otherwise LoadMessages(loaded.msgs) runs.
FinishLoad(op, files, loaded) ==
    IF loaded.err # NoError
    THEN /\ last' = [NoCall EXCEPT !.op = op, !.files = files, !.err = TRUE,
                                   !.errKind = loaded.err.kind,
                                   !.errAt = loaded.err.at]
         /\ UNCHANGED <<parsedTranslations, explicit>>
    ELSE /\ parsedTranslations' \in
                LoadMessagesResults(parsedTranslations, languages, fallbacks,
                                    defaultLocale, loaded.msgs)
         /\ explicit' = explicit \cup Supplied(languages, loaded.msgs)
         /\ last' = [NoCall EXCEPT !.op = op, !.files = files]

\* LoadFiles(files...) for some list of paths of F.
LoadFilesOf(F) ==
    /\ \E files \in F : FinishLoad("LoadFiles", files, loadFiles(files, 1, <<>>))
    /\ UNCHANGED <<bundleVars, runtimeParsedTranslations, localizer, lk, threads,
                   crashed>>

\* LoadGlob(patterns...) for some list of patterns of P.
LoadGlobOf(P) ==
    /\ \E patterns \in P :
          FinishLoad("LoadGlob", collectGlobs(patterns, 1, {}).files,
                     LoadGlobFiles(patterns))
    /\ UNCHANGED <<bundleVars, runtimeParsedTranslations, localizer, lk, threads,
                   crashed>>

\* LoadFS(fsys, patterns...) for some list of patterns of P.
LoadFSOf(P) ==
    /\ \E patterns \in P :
          FinishLoad("LoadFS", collectGlobs(patterns, 1, {}).files,
                     LoadGlobFiles(patterns))
    /\ UNCHANGED <<bundleVars, runtimeParsedTranslations, localizer, lk, threads,
                   crashed>>

\* NewLocalizer(locales...) for some candidate list of C.
NewLocalizerOf(C) ==
    \E locales \in C :
        LET selected == NewLocalizerLocale(parsedTranslations, languages,
                                           defaultLocale, locales, 1)
        IN /\ localizer' = selected
           /\ last' = [NoCall EXCEPT !.op = "NewLocalizer", !.locale = selected,
                                     !.locales = locales]
           /\ UNCHANGED <<bundleVars, dataVars, explicit, lk, threads, crashed>>

\* Get(name, data...) through the Localizer, name in K, data in D.
GetOf(K, D) ==
    /\ localizer # ""
    /\ \E name \in K, data \in D :
        LET found == lookup(parsedTranslations, runtimeParsedTranslations,
                            defaultLocale, localizer, name)
        IN /\ runtimeParsedTranslations' = found.cache
           /\ last' = [NoCall EXCEPT !.op = "Get", !.locale = localizer, !.key = name,
                                     !.data = data, !.from = found.from,
                                     !.pt = found.pt, !.panic = found.panic,
                                     !.result = localize(found.pt, data, mfOptions)]
    /\ UNCHANGED <<bundleVars, parsedTranslations, localizer, explicit, lk, threads,
                   crashed>>

\* LoadMessages(msgs) on the bundle, msgs drawn from M, the argument kept in
\* the record of the call.
LoadMessagesOfGiven(M) ==
    /\ \E msgs \in M :
         /\ parsedTranslations' \in
                LoadMessagesResults(parsedTranslations, languages, fallbacks,
                                    defaultLocale, msgs)
         /\ explicit' = explicit \cup Supplied(languages, msgs)
         /\ last' = [NoCall EXCEPT !.op = "LoadMessages", !.msgs = msgs]
    /\ UNCHANGED <<bundleVars, runtimeParsedTranslations, localizer, lk, threads,
                   crashed>>

\* GetX(name, context, data...) through the Localizer: Get of the key that
\* ContextKey builds.
GetXOf(N, X, D) ==
    /\ localizer # ""
    /\ \E name \in N, context \in X, data \in D :
        LET found == lookup(parsedTranslations, runtimeParsedTranslations,
                            defaultLocale, localizer, ContextKey(name, context))
        IN /\ runtimeParsedTranslations' = found.cache
           /\ last' = [NoCall EXCEPT !.op = "GetX", !.locale = localizer, !.key = name,
                                     !.context = context,
                                     !.data = data, !.from = found.from,
                                     !.pt = found.pt, !.panic = found.panic,
                                     !.result = localize(found.pt, data, mfOptions)]
    /\ UNCHANGED <<bundleVars, parsedTranslations, localizer, explicit, lk, threads,
                   crashed>>

\* Faulty variant of GetfOf: the name is the format string whether or not it
\* has a translation.
GetfOfName(K, A) ==
    /\ localizer # ""
    /\ \E name \in K, args \in A :
        LET found == lookup(parsedTranslations, runtimeParsedTranslations,
                            defaultLocale, localizer, name)
        IN /\ runtimeParsedTranslations' = found.cache
           /\ last' = [NoCall EXCEPT !.op = "Getf", !.locale = localizer, !.key = name,
                                     !.args = args, !.from = found.from,
                                     !.pt = found.pt, !.panic = found.panic,
                                     !.result = Sprintf(name, args)]
    /\ UNCHANGED <<bundleVars, parsedTranslations, localizer, explicit, lk, threads,
                   crashed>>

\* Getf(name, args...) through the Localizer, name in K, args in A.
GetfOf(K, A) ==
    /\ localizer # ""
    /\ \E name \in K, args \in A :
        LET found == lookup(parsedTranslations, runtimeParsedTranslations,
                            defaultLocale, localizer, name)
        IN /\ runtimeParsedTranslations' = found.cache
           /\ last' = [NoCall EXCEPT !.op = "Getf", !.locale = localizer, !.key = name,
                                     !.args = args, !.from = found.from,
                                     !.pt = found.pt, !.panic = found.panic,
                                     !.result =
                                         Sprintf(localize(found.pt, "none", mfOptions),
                                                 args)]
    /\ UNCHANGED <<bundleVars, parsedTranslations, localizer, explicit, lk, threads,
                   crashed>>

\* MatchAvailableLocale(accepts...) on the bundle, accepts in A.
MatchAvailableLocaleOf(A) ==
    /\ \E accepts \in A :
        last' = [NoCall EXCEPT !.op = "MatchAvailableLocale", !.locales = accepts,
                               !.locale = MatchAvailableLocale(languages, accepts)]
    /\ UNCHANGED <<bundleVars, dataVars, localizer, explicit, lk, threads, crashed>>

\* Format(message, data...) through the Localizer, (message, data) in P.
FormatOf(P) ==
    /\ localizer # ""
    /\ \E p \in P :
        LET r == Format(localizer, p[1], p[2], mfOptions)
        IN last' = [NoCall EXCEPT !.op = "Format", !.locale = localizer,
                                  !.key = p[1], !.data = p[2],
                                  !.result = r.str, !.err = r.err, !.panic = r.panic]
    /\ UNCHANGED <<bundleVars, dataVars, localizer, explicit, lk, threads, crashed>>

----------------------------------------------------------------------------
(* Spec: a bundle of four locales over the fallback graphs, one key. *)

LocaleNames == {"en", "ja-JP", "ko-KR", "zh-Hans"}

SpecOptions ==
    {Options(TRUE, "en", TRUE, <<"en", "ja-JP", "ko-KR", "zh-Hans">>, fbs, "string") :
        fbs \in FallbackGraphs}

Init == \E opts \in SpecOptions : Constructed(opts)

LoadMessages ==
    LoadMessagesOf(LocaleMessages(LocaleNames, KeyHi, MaxLoadLocales))

NewLocalizer == NewLocalizerOf({<<n>> : n \in LocaleNames})

Get == GetOf({KeyHi}, {"none"})

Next == LoadMessages \/ NewLocalizer \/ Get

Spec == Init /\ [][Next]_vars

----------------------------------------------------------------------------
(* SpecOnce: the bundles of Spec, loaded by a single LoadMessages call. *)

LoadMessagesOnce ==
    /\ last.op = "none"
    /\ LoadMessagesOf(LocaleMessages(LocaleNames, KeyHi, Cardinality(LocaleNames)))

NextOnce == LoadMessagesOnce \/ NewLocalizer \/ Get

SpecOnce == Init /\ [][NextOnce]_vars

----------------------------------------------------------------------------
(* SpecGet: a bundle of two locales without fallback chains; texts that are *)
(* literal, a template and a pattern that does not compile; lookups of a    *)
(* loaded key and of unseen keys, with and without variables.               *)

GetOptions ==
    {Options(TRUE, "en", TRUE, <<"en", "ja-JP">>, NoFallbacks, mfo) :
        mfo \in {"string", "values"}}

InitGet == \E opts \in GetOptions : Constructed(opts)

GetLoadMessages ==
    LoadMessagesOf(MessageMaps({"en", "ja-JP"}, {KeyHi},
                               {TextA, TextTemplate, TextBroken}, MaxLoadLocales))

GetNewLocalizer == NewLocalizerOf({<<"en">>, <<"ja-JP">>})

GetGet == GetOf({KeyHi, KeyPostVerb, KeyTemplate}, {"none", "fit", "unfit"})

NextGet == GetLoadMessages \/ GetNewLocalizer \/ GetGet

SpecGet == InitGet /\ [][NextGet]_vars

----------------------------------------------------------------------------
(* SpecLookup: LoadMessages taken apart.  Its loop over msgs is one step;    *)
(* formatFallbacks then runs one lookupBestFallback after the other, and     *)
(* every call of lookupFallback, every turn of its loop and every return is  *)
(* a step.  lk.stack holds the frames of the running calls.                  *)

\* Faulty variant of Seen: the visited set is never consulted.
SeenNever(visited, locale) == FALSE

\* The cycle guard of lookupFallback.
Seen(visited, locale) == locale \in visited

\* One chain more than FallbackGraphs has: it names a locale that is not
\* configured and never has data.
LookupGraphs ==
    FallbackGraphs \cup {Chain1("ja-JP", <<"fr", "ko-KR">>)}

LookupOptions ==
    {Options(TRUE, "en", TRUE, <<"en", "ja-JP", "ko-KR", "zh-Hans">>, fbs, "string") :
        fbs \in LookupGraphs}

InitLookup == \E opts \in LookupOptions : Constructed(opts)

Frame(locale) == [locale |-> locale, pc |-> "enter", i |-> 0]

Top == lk.stack[Len(lk.stack)]

\* The stack with its top frame replaced by f.
WithTop(f) == [lk.stack EXCEPT ![Len(lk.stack)] = f]

\* The stack after its top frame returned.
Popped == SubSeq(lk.stack, 1, Len(lk.stack) - 1)

\* The <<name, locale>> pairs for which formatFallbacks calls
\* lookupBestFallback.
PendingOf(idx, def) ==
    IF def \notin DOMAIN idx THEN {}
    ELSE UNION {{<<k, l>> : l \in FillTargets(idx, def, k)} : k \in DOMAIN idx[def]}

\* The loop of LoadMessages over msgs; formatFallbacks is entered.
LkLoad ==
    /\ lk.status = "idle"
    /\ \E msgs \in LocaleMessages(LocaleNames, KeyHi, MaxLoadLocales) :
        \E order \in Orders(DOMAIN msgs) :
            LET idx == LoadLocales(parsedTranslations, languages, msgs, order, 1)
            IN /\ parsedTranslations' = idx
               /\ explicit' = explicit \cup Supplied(languages, msgs)
               /\ lk' = [LkIdle EXCEPT !.status = "filling",
                                       !.pending = PendingOf(idx, defaultLocale)]
    /\ last' = [NoCall EXCEPT !.op = "LoadMessages"]
    /\ UNCHANGED <<bundleVars, runtimeParsedTranslations, localizer, threads, crashed>>

\* formatFallbacks calls lookupBestFallback for the next locale of its inner
\* loop; the outer loop moves on when no locale is left for its name.
LkCall ==
    /\ lk.status = "filling" /\ lk.stack = <<>> /\ ~lk.returned
    /\ \E p \in lk.pending :
        /\ (\E q \in lk.pending : q[1] = lk.name) => p[1] = lk.name
        /\ lk' = [lk EXCEPT !.name = p[1], !.locale = p[2],
                            !.stack = <<Frame(p[2])>>,
                            !.visited = {}, !.expanded = <<>>]
    /\ UNCHANGED <<bundleVars, dataVars, localizer, explicit, last, threads, crashed>>

\* lookupFallback begins: the cycle guard, the visited mark, the chain.
LkEnter ==
    /\ lk.stack # <<>> /\ Top.pc = "enter" /\ ~lk.returned
    /\ IF Seen(lk.visited, Top.locale)
       THEN lk' = [lk EXCEPT !.stack = Popped, !.returned = TRUE, !.ret = NilUnit]
       ELSE IF Top.locale \notin DOMAIN fallbacks
       THEN lk' = [lk EXCEPT !.stack = Popped, !.returned = TRUE,
                             !.ret = UnitAt(parsedTranslations, defaultLocale, lk.name),
                             !.visited = @ \cup {Top.locale},
                             !.expanded = Append(@, Top.locale)]
       ELSE lk' = [lk EXCEPT !.stack = WithTop([Top EXCEPT !.pc = "loop", !.i = 1]),
                             !.visited = @ \cup {Top.locale},
                             !.expanded = Append(@, Top.locale)]
    /\ UNCHANGED <<bundleVars, dataVars, localizer, explicit, last, threads, crashed>>

\* One turn of the loop over the chain, up to the recursive call; past the
\* chain's end the default locale's unit is returned.
LkLoop ==
    /\ lk.stack # <<>> /\ Top.pc = "loop" /\ ~lk.returned
    /\ LET chain == fallbacks[Top.locale]
       IN IF Top.i > Len(chain)
          THEN lk' = [lk EXCEPT !.stack = Popped, !.returned = TRUE,
                                !.ret = UnitAt(parsedTranslations, defaultLocale, lk.name)]
          ELSE IF HasUnit(parsedTranslations, chain[Top.i], lk.name)
          THEN lk' = [lk EXCEPT !.stack = Popped, !.returned = TRUE,
                                !.ret = parsedTranslations[chain[Top.i]][lk.name]]
          ELSE lk' = [lk EXCEPT !.stack = Append(WithTop([Top EXCEPT !.pc = "await"]),
                                                 Frame(chain[Top.i]))]
    /\ UNCHANGED <<bundleVars, dataVars, localizer, explicit, last, threads, crashed>>

\* The recursive call returned to the loop: a unit is passed on, nil lets
\* the loop go to the chain's next locale.
LkReturn ==
    /\ lk.stack # <<>> /\ Top.pc = "await" /\ lk.returned
    /\ IF lk.ret # NilUnit
       THEN lk' = [lk EXCEPT !.stack = Popped]
       ELSE lk' = [lk EXCEPT !.stack = WithTop([Top EXCEPT !.pc = "loop", !.i = @ + 1]),
                             !.returned = FALSE]
    /\ UNCHANGED <<bundleVars, dataVars, localizer, explicit, last, threads, crashed>>

\* lookupBestFallback returned to formatFallbacks, which stores a unit that
\* is not nil; after the last locale LoadMessages returns.
LkStore ==
    /\ lk.status = "filling" /\ lk.stack = <<>> /\ lk.returned
    /\ parsedTranslations' =
          IF lk.ret = NilUnit THEN parsedTranslations
          ELSE PutUnit(parsedTranslations, lk.locale, lk.name, lk.ret)
    /\ lk' = [lk EXCEPT !.pending = @ \ {<<lk.name, lk.locale>>},
                        !.returned = FALSE, !.ret = NilUnit]
    /\ UNCHANGED <<bundleVars, runtimeParsedTranslations, localizer, explicit, last,
                   threads, crashed>>

\* formatFallbacks has no locale left: LoadMessages returns.
LkDone ==
    /\ lk.status = "filling" /\ lk.stack = <<>> /\ ~lk.returned /\ lk.pending = {}
    /\ lk' = LkIdle
    /\ UNCHANGED <<bundleVars, dataVars, localizer, explicit, last, threads, crashed>>

LkStep == LkCall \/ LkEnter \/ LkLoop \/ LkReturn \/ LkStore \/ LkDone

NextLookup == LkLoad \/ LkStep

\* A call that was begun is run to its end: the goroutine is not stopped.
SpecLookup == InitLookup /\ [][NextLookup]_vars /\ WF_vars(LkStep)

----------------------------------------------------------------------------
(* SpecConc: goroutines call Get through Localizers of one bundle.  A Go map *)
(* access is not atomic: it begins in one step and ends in another, and the  *)
(* code takes no lock between them.                                          *)

Goroutines == 1..NumGoroutines

ConcOptions == {Options(TRUE, "en", TRUE, <<"en", "ja-JP">>, NoFallbacks, "string")}

InitConc == \E opts \in ConcOptions : Constructed(opts)

AllIdle == \A t \in Goroutines : threads[t].pc = "idle"

\* Goroutine t is inside an access of the runtime cache that conflicts with
\* an access of kind pc by another goroutine.
Conflicts(t, pc) ==
    \E u \in Goroutines \ {t} :
        \/ threads[u].pc = "writing"
        \/ pc = "writing" /\ threads[u].pc = "reading"

\* The load phase: no lookup is in flight.
ConcLoadMessages ==
    /\ ~crashed /\ AllIdle
    /\ LoadMessagesOf(MessageMaps({"en", "ja-JP"}, {KeyHi}, {TextA}, MaxLoadLocales))

\* Goroutine t calls Get(name) through a Localizer made by NewLocalizer.
GoGet(t) ==
    /\ ~crashed /\ threads[t].pc = "idle"
    /\ \E name \in {KeyHi, KeyPost}, locales \in {<<"en">>, <<"ja-JP">>} :
        threads' = [threads EXCEPT ![t] =
            [pc |-> "index",
             locale |-> NewLocalizerLocale(parsedTranslations, languages,
                                           defaultLocale, locales, 1),
             key |-> name, pt |-> NilUnit, op |-> "Get", args |-> <<>>]]
    /\ UNCHANGED <<bundleVars, dataVars, localizer, explicit, last, lk, crashed>>

\* Faulty variant of GoIndex: lookup goes to the runtime cache without
\* reading the index.
GoIndexSkipped(t) ==
    /\ ~crashed /\ threads[t].pc = "index"
    /\ threads' = [threads EXCEPT ![t] = [@ EXCEPT !.pc = "reading"]]
    /\ UNCHANGED <<bundleVars, dataVars, localizer, explicit, last, lk, crashed>>

\* lookup reads the index, then begins to read the runtime cache.
GoIndex(t) ==
    /\ ~crashed /\ threads[t].pc = "index"
    /\ threads' = [threads EXCEPT ![t] =
          IF HasUnit(parsedTranslations, threads[t].locale, threads[t].key)
          THEN [@ EXCEPT !.pc = "return",
                         !.pt = parsedTranslations[threads[t].locale][threads[t].key]]
          ELSE [@ EXCEPT !.pc = "reading"]]
    /\ UNCHANGED <<bundleVars, dataVars, localizer, explicit, last, lk, crashed>>

\* The read of the runtime cache ends.  While another goroutine writes the
\* map the read is a data race: the runtime may abort the program, and the
\* read may or may not see that goroutine's entry.
GoRead(t) ==
    /\ ~crashed /\ threads[t].pc = "reading"
    /\ LET key == threads[t].key
           writers == {u \in Goroutines \ {t} :
                          threads[u].pc = "writing" /\ threads[u].key = key}
           seen == (IF key \in DOMAIN runtimeParsedTranslations
                    THEN {runtimeParsedTranslations[key]} ELSE {NilUnit})
                   \cup {threads[u].pt : u \in writers}
       IN \/ /\ \E pt \in seen :
                  threads' = [threads EXCEPT ![t] =
                      IF pt # NilUnit
                      THEN [@ EXCEPT !.pc = "return", !.pt = pt]
                      ELSE [@ EXCEPT !.pc = "parse"]]
             /\ UNCHANGED crashed
          \/ /\ Conflicts(t, "reading")
             /\ crashed' = TRUE
             /\ UNCHANGED threads
    /\ UNCHANGED <<bundleVars, dataVars, localizer, explicit, last, lk>>

\* parseTranslation, then the write of the runtime cache begins.
GoParse(t) ==
    /\ ~crashed /\ threads[t].pc = "parse"
    /\ threads' = [threads EXCEPT ![t] =
          [@ EXCEPT !.pc = "writing",
                    !.pt = parseTranslation(defaultLocale, threads[t].key,
                                            trimContext(threads[t].key))]]
    /\ UNCHANGED <<bundleVars, dataVars, localizer, explicit, last, lk, crashed>>

\* The write of the runtime cache ends.  While another goroutine reads or
\* writes the map the write is a data race: the runtime may abort the
\* program.
GoWrite(t) ==
    /\ ~crashed /\ threads[t].pc = "writing"
    /\ \/ /\ runtimeParsedTranslations' =
                [k \in DOMAIN runtimeParsedTranslations \cup {threads[t].key} |->
                    IF k = threads[t].key THEN threads[t].pt
                    ELSE runtimeParsedTranslations[k]]
          /\ threads' = [threads EXCEPT ![t].pc = "return"]
          /\ UNCHANGED crashed
       \/ /\ Conflicts(t, "writing")
          /\ crashed' = TRUE
          /\ UNCHANGED <<threads, runtimeParsedTranslations>>
    /\ UNCHANGED <<bundleVars, parsedTranslations, localizer, explicit, last, lk>>

\* What the call of goroutine t returns: Get and GetX localize(pt), Getf
\* fmt.Sprintf of it, Format the message compiled and called.
GoResult(t) ==
    IF threads[t].op = "Format"
    THEN Format(threads[t].locale, threads[t].key, "fit", mfOptions)
    ELSE [str |-> IF threads[t].op = "Getf"
                  THEN Sprintf(localize(threads[t].pt, "none", mfOptions),
                               threads[t].args)
                  ELSE localize(threads[t].pt, "none", mfOptions),
          err |-> FALSE, panic |-> FALSE]

\* The call of goroutine t returns.
GoReturn(t) ==
    /\ ~crashed /\ threads[t].pc = "return"
    /\ last' = [NoCall EXCEPT !.op = threads[t].op, !.locale = threads[t].locale,
                              !.key = threads[t].key, !.pt = threads[t].pt,
                              !.args = threads[t].args,
                              !.result = GoResult(t).str,
                              !.err = GoResult(t).err]
    /\ threads' = [threads EXCEPT ![t] = IdleThread]
    /\ UNCHANGED <<bundleVars, dataVars, localizer, explicit, lk, crashed>>

NextConc ==
    \/ ConcLoadMessages
    \/ \E t \in Goroutines :
          GoGet(t) \/ GoIndex(t) \/ GoRead(t) \/ GoParse(t) \/ GoWrite(t) \/ GoReturn(t)

SpecConc == InitConc /\ [][NextConc]_vars

----------------------------------------------------------------------------
(* SpecBundle: bundles built from every combination of a default locale     *)
(* option and a locale list of up to MaxLocales strings, then used.          *)

\* Locale strings given to WithLocales: two spellings of supported tags, the
\* undefined tag and a string that does not parse.
LocaleStrings == {"en", "ja_JP", "und", "!!"}

BundleOptions ==
    {Options(FALSE, "", FALSE, <<>>, NoFallbacks, "string")}
    \cup {Options(TRUE, d, FALSE, <<>>, NoFallbacks, "string") :
             d \in {"ja-JP", "ko-KR", "!!"}}
    \cup {Options(FALSE, "", TRUE, l, NoFallbacks, "string") :
             l \in SeqsUpTo(LocaleStrings, MaxLocales)}
    \cup {Options(TRUE, d, TRUE, l, NoFallbacks, "string") :
             d \in {"ja-JP", "ko-KR", "!!"}, l \in SeqsUpTo(LocaleStrings, MaxLocales)}

InitBundle == \E opts \in BundleOptions : Constructed(opts)

BundleLoadMessages ==
    LoadMessagesOf(MessageMaps({"en", "ja-JP"}, {KeyHi}, {TextA}, 1))

BundleNewLocalizer ==
    NewLocalizerOf(SeqsUpTo({"ja_JP", "!!"}, MaxCandidates))

BundleGet == GetOf({KeyHi}, {"none"})

BundleFormat ==
    /\ localizer # ""
    /\ \E message \in {TextTemplate, TextBroken}, data \in {"fit", "unfit"} :
        LET r == Format(localizer, message, data, mfOptions)
        IN last' = [NoCall EXCEPT !.op = "Format", !.locale = localizer,
                                  !.key = message, !.data = data,
                                  !.result = r.str, !.err = r.err, !.panic = r.panic]
    /\ UNCHANGED <<bundleVars, dataVars, localizer, explicit, lk, threads, crashed>>

BundleMatchAvailableLocale ==
    /\ \E accepts \in SeqsUpTo({"ja_JP", "!!"}, MaxCandidates) :
        last' = [NoCall EXCEPT !.op = "MatchAvailableLocale", !.locales = accepts,
                               !.locale = MatchAvailableLocale(languages, accepts)]
    /\ UNCHANGED <<bundleVars, dataVars, localizer, explicit, lk, threads, crashed>>

NextBundle ==
    \/ BundleLoadMessages
    \/ BundleNewLocalizer
    \/ BundleGet
    \/ BundleFormat
    \/ BundleMatchAvailableLocale

SpecBundle == InitBundle /\ [][NextBundle]_vars

----------------------------------------------------------------------------
(* SpecLocalizer: a bundle of three locales, loaded up to MaxLoadLocales    *)
(* locales at a time, Localizers asked for with lists of up to MaxPreferred *)
(* candidates (two spellings of configured locales, a locale that is not    *)
(* configured and a string that does not parse), and locales matched        *)
(* against up to MaxPreferred Accept-Language headers.                      *)

LocalizerOptions ==
    {Options(TRUE, "en", TRUE, <<"en", "ja-JP", "ko-KR">>, NoFallbacks, "string")}

InitLocalizer == \E opts \in LocalizerOptions : Constructed(opts)

LocalizerLoadMessages ==
    LoadMessagesOfGiven(LocaleMessages({"en", "ja-JP", "ko-KR", "zh-Hans"}, KeyHi,
                                       MaxLoadLocales))

LocalizerNewLocalizer ==
    NewLocalizerOf(SeqsUpTo({"ja_JP", "ko-KR", "zh-Hans", "!!"}, MaxPreferred))

\* The Accept-Language headers: a spelling of a configured locale, a locale
\* that is not configured, a malformed header, an empty header and a header
\* that lists a locale that is not configured before one that is.
Headers == {"ja_JP", "zh-Hans", "!!", "", "zh-Hans,ko-KR"}

LocalizerMatchAvailableLocale == MatchAvailableLocaleOf(SeqsUpTo(Headers, MaxPreferred))

NextLocalizer ==
    \/ LocalizerLoadMessages
    \/ LocalizerNewLocalizer
    \/ LocalizerMatchAvailableLocale

SpecLocalizer == InitLocalizer /\ [][NextLocalizer]_vars

----------------------------------------------------------------------------
(* SpecFiles: a bundle of two locales loaded from files and from glob        *)
(* patterns, in calls of up to MaxFiles paths or patterns.                  *)

FilesOptions ==
    {Options(TRUE, "en", TRUE, <<"en", "ja-JP">>, NoFallbacks, "string")}

InitFiles == \E opts \in FilesOptions : Constructed(opts)

FilesLoadFiles ==
    LoadFilesOf(SeqsUpTo({FileEn, FileEnExtra, FileJa, FileBroken, FileAbsent}, MaxFiles))

Patterns ==
    {PatternAll("ok"), PatternJson("ok"), PatternAll("locked"), PatternBad}

FilesLoadGlob == LoadGlobOf(SeqsUpTo(Patterns, MaxFiles))

FilesLoadFS == LoadFSOf(SeqsUpTo(Patterns, MaxFiles))

FilesNewLocalizer == NewLocalizerOf({<<"en">>, <<"ja-JP">>})

FilesGet == GetOf({KeyHi, KeyPost}, {"none"})

NextFiles ==
    \/ FilesLoadFiles
    \/ FilesLoadGlob
    \/ FilesLoadFS
    \/ FilesNewLocalizer
    \/ FilesGet

SpecFiles == InitFiles /\ [][NextFiles]_vars

----------------------------------------------------------------------------
(* SpecRead: the reading operations of a Localizer over two locales: Get,
   GetX, Getf and Format on texts that compile, that do not compile and that
   hold a fmt verb. *)

\* A key that no load supplies and that does not compile as a pattern.
KeyBroken == <<"{", "k">>

\* A key that no load supplies, with a fmt verb and a context suffix.
KeyVerbCtx == <<"%", "s", "?", " ", "<", "v", ">">>

\* A text with a fmt verb.
TextGreet == <<"H", "%", "s">>

\* A pattern with a plural argument.
TextPlural == <<"#", "!">>

ReadOptions ==
    {Options(TRUE, "en", TRUE, <<"en", "ja-JP">>, NoFallbacks, mfo) :
        mfo \in {"string", "values"}}

InitRead == \E opts \in ReadOptions : Constructed(opts)

\* The messages one locale is given in a load.
ReadMessages ==
    {[k \in {KeyPost} |-> TextGreet],
     [k \in {KeyPost} |-> TextBroken],
     [k \in {KeyPost, KeyPostVerb} |-> IF k = KeyPost THEN TextGreet ELSE TextA]}

ReadLoadMessages ==
    LoadMessagesOfGiven({[l \in {n} |-> m] : n \in {"en", "ja-JP"}, m \in ReadMessages})

ReadNewLocalizer == NewLocalizerOf({<<"en">>, <<"ja-JP">>})

ReadGet == GetOf({KeyPost, KeyPostVerb, KeyBroken}, {"none", "fit"})

ReadGetX == GetXOf({KeyPost}, {<<"v">>}, {"none", "fit"})

ReadGetf == GetfOf({KeyPost, KeyVerbCtx}, {<<>>, <<(<<"W">>)>>})

ReadFormat ==
    FormatOf({<<TextA, "none">>, <<TextTemplate, "fit">>, <<TextTemplate, "unfit">>,
              <<TextBroken, "fit">>, <<TextPlural, "fit">>})

NextRead ==
    \/ ReadLoadMessages
    \/ ReadNewLocalizer
    \/ ReadGet
    \/ ReadGetX
    \/ ReadGetf
    \/ ReadFormat

SpecRead == InitRead /\ [][NextRead]_vars

----------------------------------------------------------------------------
(* SpecTrim: trimContext applied to every string of up to MaxLen characters  *)
(* over a space, the two angle brackets and a letter, and to the strings of *)
(* its test.                                                                *)

MaxLen == 6

TrimAlphabet == {" ", "<", ">", "a"}

\* "a <a> <a>", "a < a >" and "<a>".
TrimExamples ==
    {<<"a", " ", "<", "a", ">", " ", "<", "a", ">">>,
     <<"a", " ", "<", " ", "a", " ", ">">>,
     <<"<", "a", ">">>}

TrimInputs == SeqsUpTo(TrimAlphabet, MaxLen) \cup TrimExamples

TrimOptions == Options(FALSE, "", FALSE, <<>>, NoFallbacks, "string")

\* A bundle and a string about to be trimmed.
InitTrim ==
    /\ options = TrimOptions
    /\ defaultLocale = NewBundle(TrimOptions).defaultLocale
    /\ defaultLanguage = NewBundle(TrimOptions).defaultLanguage
    /\ languages = NewBundle(TrimOptions).languages
    /\ fallbacks = NewBundle(TrimOptions).fallbacks
    /\ mfOptions = NewBundle(TrimOptions).mfOptions
    /\ parsedTranslations = <<>>
    /\ runtimeParsedTranslations = <<>>
    /\ localizer = ""
    /\ explicit = {}
    /\ \E s \in TrimInputs : last = [NoCall EXCEPT !.op = "input", !.key = s]
    /\ lk = LkIdle
    /\ threads = [t \in 1..NumGoroutines |-> IdleThread]
    /\ crashed = FALSE

\* trimContext(v) of the string drawn.
TrimContextCall ==
    /\ last.op = "input"
    /\ last' = [last EXCEPT !.op = "trimContext", !.result = trimContext(last.key)]
    /\ UNCHANGED <<bundleVars, dataVars, localizer, explicit, lk, threads, crashed>>

NextTrim == TrimContextCall

SpecTrim == InitTrim /\ [][NextTrim]_vars

----------------------------------------------------------------------------
(* SpecReaders: one load, then goroutines call Get, GetX, Getf and Format   *)
(* through Localizers of the bundle, for keys the load supplied and for a   *)
(* key it did not.                                                          *)

ReadersOptions ==
    {Options(TRUE, "en", TRUE, <<"en", "ja-JP">>, NoFallbacks, "string")}

InitReaders == \E opts \in ReadersOptions : Constructed(opts)

\* The load phase: a single LoadMessages before any read.
ReadersLoadMessages ==
    /\ ~crashed /\ AllIdle
    /\ parsedTranslations = <<>>
    /\ LoadMessagesOf({[l \in {"en", "ja-JP"} |->
                           [k \in {KeyHi, KeyPostVerb} |->
                               IF k = KeyHi THEN TextGreet ELSE LocaleText(l)]],
                       [l \in {"en"} |-> [k \in {KeyHi} |-> TextGreet]]})

\* Goroutine t calls Get(name), GetX(name, "v") or Getf(name, "W") through a
\* Localizer made by NewLocalizer.
GoCall(t) ==
    /\ ~crashed /\ threads[t].pc = "idle"
    /\ parsedTranslations # <<>>
    /\ \E op \in {"Get", "GetX", "Getf"}, name \in {KeyHi, KeyPost},
          locales \in {<<"en">>, <<"ja-JP">>} :
        threads' = [threads EXCEPT ![t] =
            [pc |-> "index",
             locale |-> NewLocalizerLocale(parsedTranslations, languages,
                                           defaultLocale, locales, 1),
             key |-> IF op = "GetX" THEN ContextKey(name, <<"v">>) ELSE name,
             pt |-> NilUnit, op |-> op,
             args |-> IF op = "Getf" THEN <<(<<"W">>)>> ELSE <<>>]]
    /\ UNCHANGED <<bundleVars, dataVars, localizer, explicit, last, lk, crashed>>

\* Goroutine t calls Format(message, vars) through a Localizer: no lookup.
GoFormat(t) ==
    /\ ~crashed /\ threads[t].pc = "idle"
    /\ parsedTranslations # <<>>
    /\ \E message \in {TextTemplate, TextBroken}, locales \in {<<"en">>, <<"ja-JP">>} :
        threads' = [threads EXCEPT ![t] =
            [pc |-> "return",
             locale |-> NewLocalizerLocale(parsedTranslations, languages,
                                           defaultLocale, locales, 1),
             key |-> message, pt |-> NilUnit, op |-> "Format", args |-> <<>>]]
    /\ UNCHANGED <<bundleVars, dataVars, localizer, explicit, last, lk, crashed>>

NextReaders ==
    \/ ReadersLoadMessages
    \/ \E t \in Goroutines :
          \/ GoCall(t)
          \/ GoFormat(t)
          \/ GoIndex(t)
          \/ GoRead(t)
          \/ GoParse(t)
          \/ GoWrite(t)
          \/ GoReturn(t)

SpecReaders == InitReaders /\ [][NextReaders]_vars

----------------------------------------------------------------------------
(* SpecOrder: loads into a bundle whose fallback chains form a cycle, from  *)
(* maps of up to MaxLoadLocales names, two of which are spellings of one     *)
(* locale; the argument of each load is kept in the record of the call.     *)

OrderOptions ==
    {Options(TRUE, "en", TRUE, <<"en", "ja-JP", "ko-KR", "zh-Hans">>, fbs, "string") :
        fbs \in {NoFallbacks,
                 Chain2("ja-JP", <<"ko-KR", "zh-Hans">>, "ko-KR", <<"ja-JP">>)}}

InitOrder == \E opts \in OrderOptions : Constructed(opts)

OrderLoadMessages ==
    LoadMessagesOfGiven(LocaleMessages({"en", "ja-JP", "ja_JP", "ko-KR", "zh-Hans"},
                                       KeyHi, MaxLoadLocales))

OrderNewLocalizer == NewLocalizerOf({<<"ja-JP">>, <<"ko-KR">>})

OrderGet == GetOf({KeyHi}, {"none"})

NextOrder == OrderLoadMessages \/ OrderNewLocalizer \/ OrderGet

SpecOrder == InitOrder /\ [][NextOrder]_vars

----------------------------------------------------------------------------
(* Claims checked under Spec. *)

DefaultKeys ==
    IF defaultLocale \in DOMAIN parsedTranslations
    THEN DOMAIN parsedTranslations[defaultLocale]
    ELSE {}

\* C1: after every load, every locale that has a map in the index has a unit
\* for every key of the default locale's map, stored under that key's name.
C1_DefaultKeysEverywhere ==
    \A L \in DOMAIN parsedTranslations : \A k \in DefaultKeys :
        /\ k \in DOMAIN parsedTranslations[L]
        /\ parsedTranslations[L][k].name = k

\* C1 witness: a load has left a locale with a unit it was never given.
C1_Witness ==
    /\ last.op = "LoadMessages"
    /\ \E L \in DOMAIN parsedTranslations : \E k \in DefaultKeys :
         /\ L # defaultLocale
         /\ <<L, k>> \notin explicit
         /\ k \in DOMAIN parsedTranslations[L]

\* C3 (as claimed): when L has the one-element chain <<F>>, and k was loaded
\* for F and for the default locale but never for L, Get(k) through a
\* Localizer of L returns F's unit.
C3_SingleFallbackWins ==
    \A L \in DOMAIN fallbacks :
        ( /\ Len(fallbacks[L]) = 1
          /\ last.op = "Get" /\ last.locale = L
          /\ <<L, last.key>> \notin explicit
          /\ <<fallbacks[L][1], last.key>> \in explicit
          /\ <<defaultLocale, last.key>> \in explicit )
        => last.result = LocaleText(fallbacks[L][1])

\* The locales reachable from the locales of S along fallback chains.
RECURSIVE Reach(_)
Reach(S) ==
    LET more == S \cup UNION {Range(fallbacks[l]) : l \in S \cap DOMAIN fallbacks}
    IN IF more = S THEN S ELSE Reach(more)

\* Some locale other than the default, reachable from l, was given key k.
ReachesHolder(l, k) ==
    \E h \in Reach({l}) : h # defaultLocale /\ <<h, k>> \in explicit

\* C4 (as claimed): for a key k loaded for the default locale and never for
\* L, Get(k) through a Localizer of L with the chain F1..Fn returns the unit
\* of the first Fi that was given k (no earlier Fj reaching one that was), and
\* returns the default locale's unit only if no Fi reaches a locale given k.
C4_ChainBeforeDefault ==
    \A L \in DOMAIN fallbacks :
        ( /\ last.op = "Get" /\ last.locale = L
          /\ <<L, last.key>> \notin explicit
          /\ <<defaultLocale, last.key>> \in explicit )
        => LET chain == fallbacks[L]
               k == last.key
           IN /\ \A i \in 1..Len(chain) :
                    ( /\ <<chain[i], k>> \in explicit
                      /\ \A j \in 1..(i - 1) : ~ReachesHolder(chain[j], k) )
                    => last.result = LocaleText(chain[i])
              /\ last.result = LocaleText(defaultLocale)
                    => \A i \in 1..Len(chain) : ~ReachesHolder(chain[i], k)

----------------------------------------------------------------------------
(* Claims checked under SpecGet. *)

TemplateOutput(pt, data) == MfCall(pt.text, data, mfOptions)

\* C6: Get returns the template's output exactly when variables are given,
\* the unit has a compiled template and the call succeeds with a string; in
\* every other case it returns the unit's raw text.
C6_FormatOnlyWithVars ==
    last.op = "Get" =>
        LET out == TemplateOutput(last.pt, last.data)
            formats == /\ last.data # "none"
                       /\ last.pt.format
                       /\ ~out.err
                       /\ out.isString
        IN last.result = IF formats THEN out.str ELSE last.pt.text

\* C6 witness: a Get with variables returned a formatted text that differs
\* from the raw text.
C6_Witness ==
    /\ last.op = "Get" /\ last.data = "fit" /\ last.pt.format
    /\ last.result # last.pt.text
    /\ last.result = <<"V", "?">>

\* A step is a Get call whose bound locale has no unit for the key.
GetMissStep ==
    /\ last'.op = "Get" /\ last' # last
    /\ ~HasUnit(parsedTranslations, last'.locale, last'.key)

----------------------------------------------------------------------------
(* Claims checked under SpecLookup. *)

\* The locales of the index from which the running lookup can take a unit:
\* those on the chains reachable from its locale.
ChainHolders ==
    {f \in Reach({lk.locale}) \ {lk.locale} :
        HasUnit(parsedTranslations, f, lk.name)}

NoDuplicates(seq) ==
    \A i, j \in 1..Len(seq) : seq[i] = seq[j] => i = j

\* C2: fallback resolution ends for every fallback graph: within one
\* top-level lookup no locale is expanded twice, a top-level lookup that
\* returned gives a unit, which is the default locale's when no locale on
\* the chains holds the key, and a load that began returns.
C2_LookupTerminates ==
    /\ [](NoDuplicates(lk.expanded))
    /\ []((lk.status = "filling" /\ lk.stack = <<>> /\ lk.returned)
            => /\ lk.ret # NilUnit
               /\ ChainHolders = {}
                    => lk.ret = parsedTranslations[defaultLocale][lk.name])
    /\ (lk.status = "filling") ~> (lk.status = "idle")

\* C2 witness: a locale on a cycle of two met the cycle guard and was given
\* the default locale's unit.
C2_Witness ==
    /\ lk.status = "filling" /\ lk.stack = <<>> /\ lk.returned
    /\ lk.locale = "ja-JP"
    /\ fallbacks = Chain2("ja-JP", <<"ko-KR">>, "ko-KR", <<"ja-JP">>)
    /\ lk.expanded = <<"ja-JP", "ko-KR">>
    /\ lk.ret = parsedTranslations[defaultLocale][lk.name]

----------------------------------------------------------------------------
(* Claims checked under SpecConc. *)

\* C8 (as claimed): no goroutine writes the runtime cache while another
\* goroutine reads or writes it, and the program is never aborted.
C8_CacheAccessSynchronised ==
    /\ \A t \in Goroutines : threads[t].pc = "writing" => ~Conflicts(t, "writing")
    /\ ~crashed

----------------------------------------------------------------------------
(* Claims checked under SpecBundle. *)

\* C9: in every state from NewBundle's return on, the supported-locale list
\* is not empty, its first element is the default language, and
\* defaultLocale is that element's string form.
C9_DefaultFirst ==
    /\ Len(languages) >= 1
    /\ languages[1] = defaultLanguage
    /\ defaultLocale = TagString(languages[1])

\* C9 witness: the default locale was configured behind another locale,
\* was moved to the front, and the bundle was then loaded and read.
C9_Witness ==
    /\ options.hasDefault /\ options.default = "ja-JP"
    /\ options.hasLocales /\ options.locales = <<"en", "ja_JP">>
    /\ languages = <<TagJa, TagEn>>
    /\ last.op = "Get"
    /\ DOMAIN parsedTranslations # {}

\* C10 (as claimed): the default language occurs exactly once in the
\* supported-locale list.
C10_DefaultOnce ==
    Cardinality({i \in 1..Len(languages) : languages[i] = defaultLanguage}) = 1

----------------------------------------------------------------------------
(* Claims checked under SpecLocalizer. *)

\* The positions of the candidates of the last NewLocalizer call that
\* exactly match a configured locale.
MatchingCandidates ==
    {i \in 1..Len(last.locales) : matchExactLocale(languages, last.locales[i]) # ""}

\* Those of them whose locale has a map in the translation index.
LoadedCandidates ==
    {i \in MatchingCandidates :
        matchExactLocale(languages, last.locales[i]) \in DOMAIN parsedTranslations}

\* The locale of the first candidate among the positions S, the default
\* locale when S is empty.
FirstOf(S) ==
    IF S = {} THEN defaultLocale
    ELSE matchExactLocale(languages,
                          last.locales[CHOOSE i \in S : \A j \in S : i <= j])

----------------------------------------------------------------------------
(* Claims checked under SpecFiles. *)

FileLoadOps == {"LoadFiles", "LoadGlob", "LoadFS"}

\* The positions in the file list files of the files that give key k to the
\* configured locale L.
Givers(files, L, k) ==
    {i \in 1..Len(files) :
        /\ matchExactLocale(languages, nameInsensitive(files[i])) = L
        /\ k \in DOMAIN ReadFile(files[i]).kv}

LastOf(S) == CHOOSE i \in S : \A j \in S : j <= i

AllKeys == {KeyHi, KeyPost}

\* C12: when a load gives the same locale and key more than once, in one
\* call by several files (in the order they are read) or in successive
\* calls, the index afterwards holds the text given last and Get returns the
\* text the index holds; a load keeps every entry it does not give anew.
C12_LaterTextWins ==
    /\ []((last.op \in FileLoadOps /\ ~last.err) =>
            \A L \in {TagString(languages[i]) : i \in 1..Len(languages)} :
              \A k \in AllKeys :
                Givers(last.files, L, k) # {} =>
                    /\ HasUnit(parsedTranslations, L, k)
                    /\ parsedTranslations[L][k].text =
                          ReadFile(last.files[LastOf(Givers(last.files, L, k))]).kv[k])
    /\ []((last.op = "Get" /\ HasUnit(parsedTranslations, last.locale, last.key)) =>
              last.result = parsedTranslations[last.locale][last.key].text)
    /\ [][\A L \in DOMAIN parsedTranslations : \A k \in DOMAIN parsedTranslations[L] :
            /\ HasUnit(parsedTranslations', L, k)
            /\ \/ parsedTranslations'[L][k] = parsedTranslations[L][k]
               \/ /\ last'.op \in FileLoadOps /\ ~last'.err
                  /\ Givers(last'.files, L, k) # {}]_vars

\* C12 witness: one LoadFiles call read two files of the locale en that
\* give the same key; the index holds the second file's text, and the
\* entries of ja-JP loaded by an earlier call are still there.
C12_Witness ==
    /\ last.op = "LoadFiles" /\ ~last.err
    /\ last.files = <<FileEn, FileEnExtra>>
    /\ parsedTranslations["en"][KeyHi].text = TextB
    /\ <<"ja-JP", KeyHi>> \in explicit
    /\ parsedTranslations["ja-JP"][KeyHi].text = LocaleText("ja-JP")

----------------------------------------------------------------------------
(* Claims checked under Spec: repeated loads. *)

\* The text the index idx holds for each locale and key.
TextsOf(idx) ==
    [l \in DOMAIN idx |-> [k \in DOMAIN idx[l] |-> idx[l][k].text]]

\* The message maps of all loads so far laid over each other: a map for
\* every locale a load named, with the keys given to it.
Overlay ==
    [l \in DOMAIN parsedTranslations |->
        [k \in {x \in {KeyHi} : <<l, x>> \in explicit} |-> LocaleText(l)]]

\* C13 (as claimed): after any sequence of LoadMessages calls the texts of
\* the index are those a fresh bundle of the same configuration has after
\* one LoadMessages of the overlaid maps.
C13_LoadsCompose ==
    last.op = "LoadMessages" =>
        TextsOf(parsedTranslations) \in
            {TextsOf(fresh) :
                fresh \in LoadMessagesResults(<<>>, languages, fallbacks,
                                              defaultLocale, Overlay)}

\* File i of the last load cannot be read, or cannot be unmarshalled.
BadFile(path) == ~ReadFile(path).read \/ ~ReadFile(path).parsed

\* C14: a load from files is all-or-nothing.  It fails exactly when a glob
\* pattern is malformed or one of its files cannot be read or unmarshalled;
\* the error names that pattern or the first such file; and the failing call
\* leaves the translation index and the runtime cache as they were.
C14_AllOrNothing ==
    /\ [](last.op \in FileLoadOps =>
            /\ last.err <=> (last.errKind = "glob" \/ \E i \in 1..Len(last.files) :
                                                         BadFile(last.files[i]))
            /\ last.errKind = "glob" => Glob(last.errAt).err
            /\ last.errKind \in {"read", "unmarshal"} =>
                  \E i \in 1..Len(last.files) :
                      /\ last.files[i] = last.errAt
                      /\ \A j \in 1..(i - 1) : ~BadFile(last.files[j])
                      /\ IF last.errKind = "read" THEN ~ReadFile(last.errAt).read
                         ELSE ReadFile(last.errAt).read /\ ~ReadFile(last.errAt).parsed)
    /\ [][(last'.op \in FileLoadOps /\ last'.err) =>
            /\ parsedTranslations' = parsedTranslations
            /\ runtimeParsedTranslations' = runtimeParsedTranslations]_vars

\* C14 witness: LoadFiles read a good file and then one that does not
\* unmarshal; the error names the second and nothing of the first is loaded.
C14_Witness ==
    /\ last.op = "LoadFiles" /\ last.err
    /\ last.files = <<FileJa, FileBroken>>
    /\ last.errKind = "unmarshal" /\ last.errAt = FileBroken
    /\ "ja-JP" \notin DOMAIN parsedTranslations
    /\ "en" \in DOMAIN parsedTranslations

----------------------------------------------------------------------------
(* Claims checked under SpecRead. *)

\* The units of the index and of the runtime cache.
AllUnits ==
    UNION {{parsedTranslations[l][k] : k \in DOMAIN parsedTranslations[l]} :
             l \in DOMAIN parsedTranslations}
    \cup {runtimeParsedTranslations[k] : k \in DOMAIN runtimeParsedTranslations}

\* C15: a template that fails to compile never produces an error. LoadMessages
\* reports no error and stores each text it is given raw, with a compiled
\* template only when the text compiles; a unit made for an unseen key holds
\* the trimmed key in the same way; and Get on a unit without compiled
\* template, with or without variables, returns the raw text.
C15_CompileFailureIsSilent ==
    /\ \A u \in AllUnits : u.format = Compiles(u.text)
    /\ last.op = "LoadMessages" =>
          /\ ~last.err /\ ~last.panic
          /\ \A n \in DOMAIN last.msgs : \A k \in DOMAIN last.msgs[n] :
                matchExactLocale(languages, n) # "" =>
                    /\ HasUnit(parsedTranslations, matchExactLocale(languages, n), k)
                    /\ parsedTranslations[matchExactLocale(languages, n)][k].text
                           = last.msgs[n][k]
    /\ (last.op = "Get" /\ last.from = "parsed") =>
          /\ ~last.err /\ ~last.panic
          /\ last.key \in DOMAIN runtimeParsedTranslations
          /\ runtimeParsedTranslations[last.key].text = trimContext(last.key)
    /\ (last.op = "Get" /\ ~Compiles(last.pt.text)) =>
          /\ ~last.err /\ ~last.panic
          /\ last.result = last.pt.text

\* A stored text that does not compile has been read with variables, and a
\* unit has been made for an unseen key that does not compile.
C15_Witness ==
    /\ last.op = "Get"
    /\ last.data = "fit"
    /\ last.from = "index"
    /\ last.pt.text = TextBroken
    /\ KeyBroken \in DOMAIN runtimeParsedTranslations
    /\ ~runtimeParsedTranslations[KeyBroken].format

----------------------------------------------------------------------------
(* Claims checked under SpecLocalizer: loading and header matching. *)

\* The string forms of the configured locales.
ConfiguredLocales == {TagString(languages[i]) : i \in 1..Len(languages)}

\* The configured locale a name stands for, "" when it stands for none.
ConfiguredAs(n) ==
    IF \E i \in 1..Len(languages) : languages[i] = Make(n) /\ Make(n) # TagUnd
    THEN TagString(Make(n))
    ELSE ""

\* C16: LoadMessages ignores every name of its argument that matches no
\* configured locale: the call reports no error, the index gets no entry
\* under that name, and the locales of the same call that are configured
\* are loaded with their texts.
C16_UnmatchedNamesSkipped ==
    /\ DOMAIN parsedTranslations \subseteq ConfiguredLocales
    /\ last.op = "LoadMessages" =>
          /\ ~last.err /\ ~last.panic
          /\ \A n \in DOMAIN last.msgs :
                IF ConfiguredAs(n) = ""
                THEN n \notin DOMAIN parsedTranslations
                ELSE /\ ConfiguredAs(n) \in DOMAIN parsedTranslations
                     /\ \A k \in DOMAIN last.msgs[n] :
                           /\ HasUnit(parsedTranslations, ConfiguredAs(n), k)
                           /\ parsedTranslations[ConfiguredAs(n)][k].text
                                  = last.msgs[n][k]

\* One call has given texts for a locale that is not configured and for one
\* that is.
C16_Witness ==
    /\ last.op = "LoadMessages"
    /\ DOMAIN last.msgs = {"zh-Hans", "ja-JP"}
    /\ KeyHi \in DOMAIN last.msgs["zh-Hans"]
    /\ KeyHi \in DOMAIN last.msgs["ja-JP"]
    /\ HasUnit(parsedTranslations, "ja-JP", KeyHi)

\* The tags of the headers that parse, in the order given.
HeaderTags(accepts) ==
    LET TagsOfHeader(s) ==
            IF ParseAcceptLanguage(s).err THEN <<>> ELSE ParseAcceptLanguage(s).tags
        F[i \in 0..Len(accepts)] ==
            IF i = 0 THEN <<>> ELSE F[i - 1] \o TagsOfHeader(accepts[i])
    IN F[Len(accepts)]

\* The least position of a set of positions.
LeastOf(S) == CHOOSE i \in S : \A j \in S : i <= j

\* The positions of HeaderTags(accepts) that hold a configured locale.
ConfiguredTags(accepts) ==
    {i \in 1..Len(HeaderTags(accepts)) :
        \E j \in 1..Len(languages) : languages[j] = HeaderTags(accepts)[i]}

\* C17: MatchAvailableLocale returns the default locale when it is given no
\* header, only empty or malformed headers, or headers none of whose tags is
\* matched; a malformed header is skipped and the headers after it are still
\* matched; and the result is always the string form of a configured locale.
C17_HeaderMatching ==
    last.op = "MatchAvailableLocale" =>
        /\ last.locale \in ConfiguredLocales
        /\ ConfiguredTags(last.locales) = {} => last.locale = defaultLocale
        /\ ConfiguredTags(last.locales) # {} =>
              last.locale =
                  TagString(HeaderTags(last.locales)[LeastOf(ConfiguredTags(last.locales))])

\* A malformed header came before one that names a configured locale.
C17_Witness ==
    /\ last.op = "MatchAvailableLocale"
    /\ last.locales = <<"!!", "ja_JP">>
    /\ last.locale = "ja-JP"
    /\ defaultLocale = "en"

----------------------------------------------------------------------------
(* Claims checked under SpecRead: Format, Getf and GetX. *)

\* Format(message, data) fails: the message does not compile, or the
\* compiled message rejects the variables.
FormatFails(message, data) ==
    \/ ~Compiles(message)
    \/ MfCall(message, data, mfOptions).err

\* C18: Format returns an error together with the empty string exactly when
\* compiling or formatting the message fails, and otherwise the formatted
\* text without error; the message is compiled under the plural rules of the
\* Localizer's own locale, not of the default locale; a message that fails is
\* never given back as the result.
C18_FormatErrors ==
    last.op = "Format" =>
        /\ ~last.panic
        /\ last.err <=> FormatFails(last.key, last.data)
        /\ last.err => last.result = <<>>
        /\ (~last.err /\ mfOptions = "string") =>
              last.result = InBase(LangBase(last.locale),
                                   Render(last.key, Len(last.key)))
        /\ (~last.err /\ last.key = TextPlural /\ mfOptions = "string") =>
              last.result = <<PluralOfOne(LangBase(last.locale)), "!">>

\* A plural pattern has been formatted by a Localizer of a locale whose
\* plural rules differ from those of the default locale.
C18_Witness ==
    /\ last.op = "Format"
    /\ last.locale = "ja-JP"
    /\ defaultLocale = "en"
    /\ last.key = TextPlural
    /\ ~last.err
    /\ last.result = <<"other", "!">>

\* What Get(key) without variables returns in the present state.
GetNow(key) ==
    localize(lookup(parsedTranslations, runtimeParsedTranslations, defaultLocale,
                    localizer, key).pt,
             "none", mfOptions)

\* The runtime cache Get(key) leaves in the present state.
CacheAfterGet(key) ==
    lookup(parsedTranslations, runtimeParsedTranslations, defaultLocale,
           localizer, key).cache

\* The format string of Getf(key, ...) when the key has a translation: the
\* raw text of the unit that resolves it.
StoredText(key) == parsedTranslations[localizer][key].text

QualifiedKey == last'.key \o <<" ", "<">> \o last'.context \o <<">">>

\* C20: GetX(name, context, vars) returns what Get(name + " <" + context +
\* ">", vars) returns and leaves the runtime cache that Get leaves; the
\* qualified key is a key of its own: it is resolved by its own entry of the
\* index when it has one, and otherwise by a unit made for it, never by the
\* translation stored under the bare name.
C20_GetXIsGetOfQualifiedKey ==
    [][last'.op = "GetX" =>
          LET found == lookup(parsedTranslations, runtimeParsedTranslations,
                              defaultLocale, localizer, QualifiedKey)
          IN /\ last'.result = localize(found.pt, last'.data, mfOptions)
             /\ runtimeParsedTranslations' = CacheAfterGet(QualifiedKey)
             /\ last'.pt.name = QualifiedKey
             /\ HasUnit(parsedTranslations, localizer, QualifiedKey) =>
                   last'.pt = parsedTranslations[localizer][QualifiedKey]
             /\ ~HasUnit(parsedTranslations, localizer, QualifiedKey) =>
                   /\ last'.from # "index"
                   /\ last'.result = trimContext(QualifiedKey)
                   /\ QualifiedKey \in DOMAIN runtimeParsedTranslations'
                   /\ HasUnit(parsedTranslations, localizer, last'.key) =>
                         last'.result # StoredText(last'.key)]_vars

\* GetX has read a qualified key that has no translation in a locale that
\* has one for the bare name.
C20_Witness ==
    /\ last.op = "GetX"
    /\ last.key = KeyPost
    /\ last.context = <<"v">>
    /\ HasUnit(parsedTranslations, last.locale, KeyPost)
    /\ ~HasUnit(parsedTranslations, last.locale, KeyPostVerb)
    /\ last.result = KeyPost
    /\ KeyPostVerb \in DOMAIN runtimeParsedTranslations

----------------------------------------------------------------------------
(* Claims checked under SpecBundle: the default locale. *)

\* The default option names a defined tag.
DefaultGiven ==
    /\ options.hasDefault
    /\ ~Parse(options.default).err
    /\ Parse(options.default).tag # TagUnd

\* The strings of the locale option that name a defined tag, in order.
LocalesGiven ==
    IF options.hasLocales
    THEN SelectSeq(options.locales,
                   LAMBDA s : ~Parse(s).err /\ Parse(s).tag # TagUnd)
    ELSE <<>>

\* C21: the default locale is the configured default when one is given that
\* names a defined tag, otherwise the first configured locale, otherwise
\* English, which is then the only supported locale.
C21_DefaultResolution ==
    /\ DefaultGiven => defaultLocale = TagString(Parse(options.default).tag)
    /\ (~DefaultGiven /\ LocalesGiven # <<>>) =>
          defaultLocale = TagString(Parse(LocalesGiven[1]).tag)
    /\ (~DefaultGiven /\ LocalesGiven = <<>>) =>
          /\ defaultLocale = "en"
          /\ languages = <<TagEn>>
    /\ defaultLanguage = Make(defaultLocale)

\* A bundle whose default option names no tag and whose first locale string
\* does not parse took the first locale that does.
C21_Witness ==
    /\ options.hasDefault
    /\ options.default = "!!"
    /\ options.hasLocales
    /\ Len(options.locales) >= 2
    /\ options.locales[1] = "!!"
    /\ options.locales[2] = "ja_JP"
    /\ defaultLocale = "ja-JP"
    /\ last.op = "Get"

----------------------------------------------------------------------------
(* Claims checked under SpecTrim. *)

\* " <" occurs in s at position i.
CtxAt(s, i) == i >= 1 /\ i < Len(s) /\ s[i] = " " /\ s[i + 1] = "<"

\* r is a prefix of s.
IsPrefix(r, s) == Len(r) <= Len(s) /\ \A i \in 1..Len(r) : r[i] = s[i]

\* C22: trimContext(s) is the prefix of s before the last " <" when s ends in
\* ">" and holds " <", and s itself otherwise; only the last context suffix
\* goes ("a <a> <a>" gives "a <a>", "<a>" stays), and the result is always a
\* prefix of s.
C22_TrimContext ==
    last.op = "trimContext" =>
        LET s == last.key
            r == last.result
            ends == Len(s) > 0 /\ s[Len(s)] = ">"
            holds == \E i \in 1..Len(s) : CtxAt(s, i)
        IN /\ IsPrefix(r, s)
           /\ (ends /\ holds) =>
                 \E i \in 1..Len(s) :
                    /\ CtxAt(s, i)
                    /\ \A j \in (i + 1)..Len(s) : ~CtxAt(s, j)
                    /\ r = SubSeq(s, 1, i - 1)
           /\ ~(ends /\ holds) => r = s
           /\ s = <<"a", " ", "<", "a", ">", " ", "<", "a", ">">> =>
                 r = <<"a", " ", "<", "a", ">">>
           /\ s = <<"<", "a", ">">> => r = s

\* A string with two context suffixes lost the last one.
C22_Witness ==
    /\ last.op = "trimContext"
    /\ last.key = <<"a", " ", "<", "a", ">", " ", "<", "a", ">">>
    /\ last.result = <<"a", " ", "<", "a", ">">>

----------------------------------------------------------------------------
(* Claims checked under SpecReaders. *)

\* Every call in flight is a Format, or a lookup of a key that the index
\* holds for the locale of its Localizer.
AllPresent ==
    \A t \in Goroutines :
        threads[t].pc # "idle" =>
            \/ threads[t].op = "Format"
            \/ HasUnit(parsedTranslations, threads[t].locale, threads[t].key)

\* What the call of goroutine t returns when it runs alone in the present
\* state.
AloneResult(t) ==
    LET pt == lookup(parsedTranslations, runtimeParsedTranslations, defaultLocale,
                     threads[t].locale, threads[t].key).pt
    IN IF threads[t].op = "Format"
       THEN Format(threads[t].locale, threads[t].key, "fit", mfOptions).str
       ELSE IF threads[t].op = "Getf"
       THEN Sprintf(localize(pt, "none", mfOptions), threads[t].args)
       ELSE localize(pt, "none", mfOptions)

\* C23: once loading has finished, concurrent Get, GetX and Getf calls for
\* keys present in the index of the bound locale, and concurrent Format
\* calls, write no bundle state: no step of such calls changes the index, the
\* runtime cache or the configuration, none is inside an access of the
\* runtime cache, the program is not aborted, and each call returns what it
\* returns when run alone.
C23_ReadersDoNotWrite ==
    [][(parsedTranslations # <<>> /\ AllPresent) =>
          /\ UNCHANGED <<bundleVars, parsedTranslations, runtimeParsedTranslations>>
          /\ ~crashed'
          /\ \A t \in Goroutines :
                /\ threads[t].pc \notin {"reading", "parse", "writing"}
                /\ (threads[t].pc = "return" /\ threads'[t].pc = "idle") =>
                      /\ last'.op = threads[t].op
                      /\ last'.result = AloneResult(t)]_vars

\* A Getf call for a present key has returned while a Format call of the
\* other goroutine was in flight.
C23_Witness ==
    /\ last.op = "Getf"
    /\ last.result = <<"H", "W">>
    /\ \E t \in Goroutines : threads[t].pc = "return" /\ threads[t].op = "Format"
    /\ \E t \in Goroutines : threads[t].pc = "index" /\ threads[t].op = "GetX"
                             /\ HasUnit(parsedTranslations, threads[t].locale,
                                        threads[t].key)
    /\ runtimeParsedTranslations = <<>>
    /\ ~crashed

----------------------------------------------------------------------------
(* Claims checked under SpecOnce and Spec: fallback chains. *)

\* L falls back to F: F is in the chain configured for L.
FallsBackTo(L, F) == L \in DOMAIN fallbacks /\ F \in Range(fallbacks[L])

\* C24 (as claimed): fallback resolution is transitive. When L falls back to
\* F and F to G, and the key has been loaded for G and for the default locale
\* but neither for L nor for F, Get through a Localizer of L returns G's
\* translation, in whatever order the locales were filled.
C24_TransitiveFallback ==
    \A L, F, G \in LocaleNames :
        (/\ last.op = "Get"
         /\ last.locale = L
         /\ FallsBackTo(L, F) /\ FallsBackTo(F, G)
         /\ <<L, last.key>> \notin explicit
         /\ <<F, last.key>> \notin explicit
         /\ <<G, last.key>> \in explicit
         /\ <<defaultLocale, last.key>> \in explicit
         /\ G # defaultLocale)
        => last.result = LocaleText(G)

----------------------------------------------------------------------------
(* Claims checked under SpecOrder. *)

\* C26 (as claimed): LoadMessages is deterministic. The texts a load leaves
\* in the index are those every iteration order of its argument, of the
\* locales of the index and of the default locale's keys leaves, from the
\* same bundle state and for the same argument.
C26_LoadDeterministic ==
    [][last'.op = "LoadMessages" =>
          \A other \in LoadMessagesResults(parsedTranslations, languages, fallbacks,
                                           defaultLocale, last'.msgs) :
              TextsOf(other) = TextsOf(parsedTranslations')]_vars

----------------------------------------------------------------------------
(* Claims checked under SpecGet: entries placed by fallback resolution. *)

\* C27 (as claimed): after any sequence of loads, an entry that fallback
\* resolution placed in a locale that was never given the key carries the
\* text of the current entry of the locale it was taken from, and Get through
\* a Localizer of that locale returns that current text.
C27_FilledEntriesCurrent ==
    /\ \A L \in DOMAIN parsedTranslations : \A k \in DOMAIN parsedTranslations[L] :
          <<L, k>> \notin explicit =>
              /\ HasUnit(parsedTranslations, parsedTranslations[L][k].locale, k)
              /\ parsedTranslations[L][k].text
                     = parsedTranslations[parsedTranslations[L][k].locale][k].text
    /\ (/\ last.op = "Get"
        /\ last.from = "index"
        /\ last.data = "none"
        /\ <<last.locale, last.key>> \notin explicit)
       => last.result = parsedTranslations[last.pt.locale][last.key].text

----------------------------------------------------------------------------
(* Claims checked under SpecRead: loaded entries and the runtime cache. *)

\* The <<locale, key>> pairs the load of last' supplies.
SuppliedNow == Supplied(languages, last'.msgs)

\* C28: an entry loaded for (L, k) stays until (L, k) is loaded again.  In
\* every state the entry of a pair that was ever loaded is a unit of L's
\* own; a load stores the text it gives for (L, k), also over an entry that
\* fallback resolution had placed; and it leaves every other entry of the
\* index as it was, fallback resolution overwriting none.
C28_ExplicitEntriesKept ==
    /\ [](\A p \in explicit :
             /\ HasUnit(parsedTranslations, p[1], p[2])
             /\ parsedTranslations[p[1]][p[2]].locale = p[1])
    /\ [][last'.op = "LoadMessages" =>
            /\ \A n \in DOMAIN last'.msgs : \A k \in DOMAIN last'.msgs[n] :
                  ConfiguredAs(n) # "" =>
                      /\ HasUnit(parsedTranslations', ConfiguredAs(n), k)
                      /\ parsedTranslations'[ConfiguredAs(n)][k].text = last'.msgs[n][k]
                      /\ parsedTranslations'[ConfiguredAs(n)][k].locale = ConfiguredAs(n)
            /\ \A L \in DOMAIN parsedTranslations : \A k \in DOMAIN parsedTranslations[L] :
                  <<L, k>> \notin SuppliedNow =>
                      /\ HasUnit(parsedTranslations', L, k)
                      /\ parsedTranslations'[L][k] = parsedTranslations[L][k]]_vars

\* A locale holds a text of its own for one key, loaded over the default
\* locale's text, and an entry placed by fallback resolution for another.
C28_Witness ==
    /\ last.op = "LoadMessages"
    /\ DOMAIN last.msgs = {"ja-JP"}
    /\ last.msgs["ja-JP"][KeyPost] = TextBroken
    /\ HasUnit(parsedTranslations, "en", KeyPost)
    /\ parsedTranslations["en"][KeyPost].text = TextGreet
    /\ parsedTranslations["ja-JP"][KeyPost].text = TextBroken
    /\ HasUnit(parsedTranslations, "ja-JP", KeyPostVerb)
    /\ parsedTranslations["ja-JP"][KeyPostVerb].locale = "en"

\* The operations that look a key up, and the key the last of them looked up.
Getters == {"Get", "GetX", "Getf"}

LookedUp(call) ==
    IF call.op = "GetX" THEN ContextKey(call.key, call.context) ELSE call.key

\* C29: the index is read before the runtime cache.  A call of Get, GetX or
\* Getf whose key the index holds for the Localizer's locale, loaded or
\* placed by fallback resolution, takes the unit of the index, whether or
\* not an earlier miss cached the key; and no load adds, changes or removes
\* an entry of the runtime cache.
C29_IndexBeforeCache ==
    /\ []((last.op \in Getters /\ HasUnit(parsedTranslations, last.locale, LookedUp(last)))
             => /\ last.from = "index"
                /\ last.pt = parsedTranslations[last.locale][LookedUp(last)])
    /\ [][last'.op = "LoadMessages"
             => runtimeParsedTranslations' = runtimeParsedTranslations]_vars

\* Get returns the loaded text of a key that an earlier miss left in the
\* runtime cache.
C29_Witness ==
    /\ last.op = "Get"
    /\ last.key = KeyPost
    /\ last.data = "none"
    /\ KeyPost \in DOMAIN runtimeParsedTranslations
    /\ HasUnit(parsedTranslations, last.locale, KeyPost)
    /\ last.from = "index"
    /\ last.result # localize(runtimeParsedTranslations[KeyPost], "none", mfOptions)

\* C30: the reading operations write at most one cache entry.  Get, GetX,
\* Getf and Format leave the locale list, the default locale, the fallback
\* graph and the index as they were; Format leaves the runtime cache as it
\* was too and returns what its message, its data and the options alone
\* give; Get, GetX and Getf keep every entry of the runtime cache and add
\* at most one, under the key they looked up.
C30_ReadsAddOneCacheEntry ==
    [][/\ last'.op \in Getters \cup {"Format"}
           => UNCHANGED <<bundleVars, parsedTranslations>>
       /\ last'.op = "Format"
           => /\ runtimeParsedTranslations' = runtimeParsedTranslations
              /\ last'.result
                    = Format(last'.locale, last'.key, last'.data, mfOptions).str
       /\ last'.op \in Getters
           => /\ DOMAIN runtimeParsedTranslations'
                    \subseteq DOMAIN runtimeParsedTranslations \cup {LookedUp(last')}
              /\ \A k \in DOMAIN runtimeParsedTranslations :
                    /\ k \in DOMAIN runtimeParsedTranslations'
                    /\ runtimeParsedTranslations'[k] = runtimeParsedTranslations[k]]_vars

\* A miss added its key to a runtime cache that holds another key.
C30_Witness ==
    /\ last.op \in Getters
    /\ last.from = "parsed"
    /\ LookedUp(last) \in DOMAIN runtimeParsedTranslations
    /\ \E k \in DOMAIN runtimeParsedTranslations : k # LookedUp(last)

====
